---- MODULE Spec2Model ----
(***************************************************************************)
(* Model of the Solidity AST parser (package parser) and of the registry   *)
(* it builds: ParseAllContracts, ParseContractFile, the extraction engine  *)
(* (ExtractContractInfoFromAST and the Extract* functions), the type       *)
(* renderer extractTypeName and the value reconstructor extractValue.      *)
(*                                                                         *)
(* Go values are represented as follows.                                   *)
(*   string            a TLA+ string                                       *)
(*   []T               a sequence                                          *)
(*   *T                Nil (the empty sequence) or Ref(x) == <<x>>         *)
(*   interface{}       a tagged record [t |-> dynamic type, v |-> value];  *)
(*                     the tags are those of encoding/json's generic       *)
(*                     decoding ("nil", "string", "float64", "bool",       *)
(*                     "map", "slice") plus "ptr" for a *ASTNode stored in *)
(*                     an interface value                                  *)
(*   struct            a record with the Go field names                    *)
(***************************************************************************)
EXTENDS Integers, Sequences, FiniteSets, TLC

(***************************************************************************)
(* Pointers and interface values                                           *)
(***************************************************************************)
Nil == <<>>

Ref(x) == <<x>>

Deref(p) == p[1]

JNil == [t |-> "nil", v |-> <<>>]

JStr(s) == [t |-> "string", v |-> s]

JNum(n) == [t |-> "float64", v |-> n]

JBool(b) == [t |-> "bool", v |-> b]

JMap(m) == [t |-> "map", v |-> m]

JSlice(s) == [t |-> "slice", v |-> s]

JPtr(p) == [t |-> "ptr", v |-> p]

(***************************************************************************)
(* strings.Join                                                            *)
(***************************************************************************)
RECURSIVE Join(_, _)
Join(elems, sep) ==
    IF Len(elems) = 0 THEN ""
    ELSE IF Len(elems) = 1 THEN elems[1]
    ELSE elems[1] \o sep \o Join(Tail(elems), sep)

(***************************************************************************)
(* The zero value of ASTNode: the fields the parser reads.                 *)
(***************************************************************************)
ZeroNode ==
    [ NodeType |-> "", Name |-> "", AbsolutePath |-> "", File |-> "",
      BaseContracts |-> <<>>, Members |-> <<>>, Modifiers |-> <<>>,
      Parameters |-> Nil, ReturnParameters |-> Nil,
      Visibility |-> "", StateMutability |-> "", Kind |-> "",
      BaseFunctions |-> <<>>, Overrides |-> Nil,
      FunctionSelector |-> "", StorageLocation |-> "",
      Constant |-> FALSE, Mutability |-> "", StateVariable |-> FALSE,
      Value |-> JNil, TypeName |-> Nil, Literals |-> <<>>, Nodes |-> <<>>,
      Operator |-> "", SubExpression |-> Nil, Expression |-> Nil,
      Arguments |-> <<>>, HexValue |-> "",
      LeftExpression |-> Nil, RightExpression |-> Nil, Indexed |-> Nil ]

\* An ASTNode with the fields of r set and every other field zero.
ASTNode(r) == r @@ ZeroNode

(***************************************************************************)
(* The zero value of TypeName.                                             *)
(***************************************************************************)
ZeroTypeName ==
    [ NodeType |-> "", Name |-> "", Path |-> "", BaseType |-> Nil,
      Length |-> JNil, KeyType |-> Nil, ValueType |-> Nil,
      TypeDescriptions |-> Nil, PathNode |-> Nil ]

TypeName(r) == r @@ ZeroTypeName

(***************************************************************************)
(* fmt.Sprintf("%v", x) for a value of encoding/json's generic decoding.   *)
(* Numbers are the small naturals of the model, which %v prints in plain   *)
(* decimal. A map prints as map[k:v ...] with its keys in ascending order: *)
(* KeyOrder lists, in that order, the JSON keys the model's maps use.      *)
(***************************************************************************)
KeyOrder ==
    << "arguments", "expression", "hexValue", "leftExpression", "name",
       "nodeType", "operator", "rightExpression", "subExpression", "value" >>

RECURSIVE FmtV(_)
FmtV(x) ==
    CASE x.t = "nil" -> "<nil>"
      [] x.t = "string" -> x.v
      [] x.t = "float64" -> ToString(x.v)
      [] x.t = "bool" -> (IF x.v THEN "true" ELSE "false")
      [] x.t = "slice" ->
            "[" \o Join([i \in 1..Len(x.v) |-> FmtV(x.v[i])], " ") \o "]"
      [] x.t = "map" ->
            LET keys == SelectSeq(KeyOrder, LAMBDA k : k \in DOMAIN x.v)
            IN "map[" \o
               Join([i \in 1..Len(keys) |-> keys[i] \o ":" \o FmtV(x.v[keys[i]])],
                    " ") \o "]"

(***************************************************************************)
(* extractTypeName: the type renderer.                                     *)
(***************************************************************************)
RECURSIVE extractTypeName(_)
\* A slip: the value type of a mapping is named, not rendered.
extractTypeNameFlatValue(typeName) ==
    IF typeName = Nil THEN ""
    ELSE LET tn == Deref(typeName) IN
      CASE tn.NodeType = "ElementaryTypeName" -> tn.Name
        [] tn.NodeType = "UserDefinedTypeName" ->
              IF tn.TypeDescriptions # Nil
                    /\ Deref(tn.TypeDescriptions).TypeString # ""
              THEN Deref(tn.TypeDescriptions).TypeString
              ELSE IF tn.Name # "" THEN tn.Name
              ELSE IF tn.PathNode # Nil /\ Deref(tn.PathNode).Name # ""
              THEN Deref(tn.PathNode).Name
              ELSE ""
        [] tn.NodeType = "Mapping" ->
              "mapping(" \o extractTypeName(tn.KeyType) \o " => "
                         \o (IF tn.ValueType = Nil THEN "" ELSE Deref(tn.ValueType).Name) \o ")"
        [] tn.NodeType = "ArrayTypeName" ->
              IF tn.Length # JNil
              THEN extractTypeName(tn.BaseType) \o "[" \o FmtV(tn.Length) \o "]"
              ELSE extractTypeName(tn.BaseType) \o "[]"
        [] OTHER -> ""

\* A slip: the declared name is preferred to the type description.
extractTypeNameDeclaredFirst(typeName) ==
    IF typeName = Nil THEN ""
    ELSE LET tn == Deref(typeName) IN
      CASE tn.NodeType = "ElementaryTypeName" -> tn.Name
        [] tn.NodeType = "UserDefinedTypeName" ->
              IF tn.Name # "" THEN tn.Name
              ELSE IF tn.TypeDescriptions # Nil
                    /\ Deref(tn.TypeDescriptions).TypeString # ""
              THEN Deref(tn.TypeDescriptions).TypeString
              ELSE IF tn.PathNode # Nil /\ Deref(tn.PathNode).Name # ""
              THEN Deref(tn.PathNode).Name
              ELSE ""
        [] tn.NodeType = "Mapping" ->
              "mapping(" \o extractTypeName(tn.KeyType) \o " => "
                         \o extractTypeName(tn.ValueType) \o ")"
        [] tn.NodeType = "ArrayTypeName" ->
              IF tn.Length # JNil
              THEN extractTypeName(tn.BaseType) \o "[" \o FmtV(tn.Length) \o "]"
              ELSE extractTypeName(tn.BaseType) \o "[]"
        [] OTHER -> ""

\* A slip: a type node of another kind renders as its name.
extractTypeNameEchoName(typeName) ==
    IF typeName = Nil THEN ""
    ELSE LET tn == Deref(typeName) IN
      CASE tn.NodeType = "ElementaryTypeName" -> tn.Name
        [] tn.NodeType = "UserDefinedTypeName" ->
              IF tn.TypeDescriptions # Nil
                    /\ Deref(tn.TypeDescriptions).TypeString # ""
              THEN Deref(tn.TypeDescriptions).TypeString
              ELSE IF tn.Name # "" THEN tn.Name
              ELSE IF tn.PathNode # Nil /\ Deref(tn.PathNode).Name # ""
              THEN Deref(tn.PathNode).Name
              ELSE ""
        [] tn.NodeType = "Mapping" ->
              "mapping(" \o extractTypeName(tn.KeyType) \o " => "
                         \o extractTypeName(tn.ValueType) \o ")"
        [] tn.NodeType = "ArrayTypeName" ->
              IF tn.Length # JNil
              THEN extractTypeName(tn.BaseType) \o "[" \o FmtV(tn.Length) \o "]"
              ELSE extractTypeName(tn.BaseType) \o "[]"
        [] OTHER -> tn.Name

extractTypeName(typeName) ==
    IF typeName = Nil THEN ""
    ELSE LET tn == Deref(typeName) IN
      CASE tn.NodeType = "ElementaryTypeName" -> tn.Name
        [] tn.NodeType = "UserDefinedTypeName" ->
              IF tn.TypeDescriptions # Nil
                    /\ Deref(tn.TypeDescriptions).TypeString # ""
              THEN Deref(tn.TypeDescriptions).TypeString
              ELSE IF tn.Name # "" THEN tn.Name
              ELSE IF tn.PathNode # Nil /\ Deref(tn.PathNode).Name # ""
              THEN Deref(tn.PathNode).Name
              ELSE ""
        [] tn.NodeType = "Mapping" ->
              "mapping(" \o extractTypeName(tn.KeyType) \o " => "
                         \o extractTypeName(tn.ValueType) \o ")"
        [] tn.NodeType = "ArrayTypeName" ->
              IF tn.Length # JNil
              THEN extractTypeName(tn.BaseType) \o "[" \o FmtV(tn.Length) \o "]"
              ELSE extractTypeName(tn.BaseType) \o "[]"
        [] OTHER -> ""

(***************************************************************************)
(* json.Unmarshal(json.Marshal(m), &ASTNode{}) for a generic map m, as     *)
(* extractValue performs it. JsonTag gives the JSON key of each field an   *)
(* expression node carries; the other fields keep their zero value.        *)
(* A string field accepts a JSON string or null, a *ASTNode field a JSON   *)
(* object or null, Arguments a JSON array or null, Value anything; any     *)
(* other JSON type makes Unmarshal return an error.                        *)
(***************************************************************************)
JsonTag ==
    [ NodeType |-> "nodeType", Name |-> "name", Value |-> "value",
      HexValue |-> "hexValue", Operator |-> "operator",
      SubExpression |-> "subExpression", Expression |-> "expression",
      Arguments |-> "arguments", LeftExpression |-> "leftExpression",
      RightExpression |-> "rightExpression" ]

StringFields == {"NodeType", "Name", "HexValue", "Operator"}

NodeFields == {"SubExpression", "Expression", "LeftExpression", "RightExpression"}

RECURSIVE UnmarshalOK(_)
UnmarshalOK(m) ==
    /\ \A f \in StringFields :
          JsonTag[f] \in DOMAIN m => m[JsonTag[f]].t \in {"string", "nil"}
    /\ \A f \in NodeFields :
          JsonTag[f] \in DOMAIN m =>
             \/ m[JsonTag[f]].t = "nil"
             \/ m[JsonTag[f]].t = "map" /\ UnmarshalOK(m[JsonTag[f]].v)
    /\ "arguments" \in DOMAIN m => m["arguments"].t \in {"slice", "nil"}

RECURSIVE Unmarshal(_)
Unmarshal(m) ==
    [ f \in DOMAIN ZeroNode |->
        IF f \notin DOMAIN JsonTag THEN ZeroNode[f]
        ELSE IF JsonTag[f] \notin DOMAIN m THEN ZeroNode[f]
        ELSE LET x == m[JsonTag[f]] IN
          IF f = "Value" THEN x
          ELSE IF x.t = "nil" THEN ZeroNode[f]
          ELSE IF f \in NodeFields THEN Ref(Unmarshal(x.v))
          ELSE x.v ]

(***************************************************************************)
(* extractValue, extractValueFromNode, extractFunctionCall: the value      *)
(* reconstructor. extractValue switches on the dynamic type of its         *)
(* argument; a *ASTNode (tag "ptr") matches none of its cases.             *)
(***************************************************************************)
RECURSIVE extractValue(_)
RECURSIVE extractValueFromNode(_)
RECURSIVE extractFunctionCall(_)

extractValue(value) ==
    CASE value.t = "nil" -> ""
      [] value.t = "string" -> value.v
      [] value.t \in {"float64", "bool"} -> FmtV(value)
      [] value.t = "map" ->
            IF UnmarshalOK(value.v)
            THEN extractValueFromNode(Ref(Unmarshal(value.v)))
            ELSE ""
      [] OTHER -> ""

\* A slip: a literal renders its hex form even when it has a plain value.
extractValueFromNodeHexFirst(node) ==
    IF node = Nil THEN ""
    ELSE LET n == Deref(node) IN
      CASE n.NodeType = "Literal" ->
              IF n.HexValue # "" THEN n.HexValue
              ELSE IF n.Value # JNil THEN FmtV(n.Value)
              ELSE ""
        [] n.NodeType = "FunctionCall" -> extractFunctionCall(node)
        [] n.NodeType = "Identifier" -> n.Name
        [] n.NodeType = "UnaryOperation" ->
              n.Operator \o extractValue(JPtr(n.SubExpression))
        [] n.NodeType = "BinaryOperation" ->
              "(" \o extractValue(JPtr(n.LeftExpression)) \o " " \o n.Operator
                  \o " " \o extractValue(JPtr(n.RightExpression)) \o ")"
        [] OTHER -> ""

\* A slip: a node of an unsupported kind renders as the name of its kind.
extractValueFromNodeEchoKind(node) ==
    IF node = Nil THEN ""
    ELSE LET n == Deref(node) IN
      CASE n.NodeType = "Literal" ->
              IF n.Value # JNil THEN FmtV(n.Value)
              ELSE IF n.HexValue # "" THEN n.HexValue
              ELSE ""
        [] n.NodeType = "FunctionCall" -> extractFunctionCall(node)
        [] n.NodeType = "Identifier" -> n.Name
        [] n.NodeType = "UnaryOperation" ->
              n.Operator \o extractValue(JPtr(n.SubExpression))
        [] n.NodeType = "BinaryOperation" ->
              "(" \o extractValue(JPtr(n.LeftExpression)) \o " " \o n.Operator
                  \o " " \o extractValue(JPtr(n.RightExpression)) \o ")"
        [] OTHER -> n.NodeType

extractValueFromNode(node) ==
    IF node = Nil THEN ""
    ELSE LET n == Deref(node) IN
      CASE n.NodeType = "Literal" ->
              IF n.Value # JNil THEN FmtV(n.Value)
              ELSE IF n.HexValue # "" THEN n.HexValue
              ELSE ""
        [] n.NodeType = "FunctionCall" -> extractFunctionCall(node)
        [] n.NodeType = "Identifier" -> n.Name
        [] n.NodeType = "UnaryOperation" ->
              LET operand == extractValue(JPtr(n.SubExpression))
              IN n.Operator \o operand
        [] n.NodeType = "BinaryOperation" ->
              LET left == extractValue(JPtr(n.LeftExpression))
                  right == extractValue(JPtr(n.RightExpression))
              IN "(" \o left \o " " \o n.Operator \o " " \o right \o ")"
        [] OTHER -> ""

extractFunctionCall(node) ==
    IF node = Nil \/ Deref(node).Expression = Nil THEN ""
    ELSE LET n == Deref(node)
             functionName ==
                IF Deref(n.Expression).NodeType = "Identifier"
                THEN Deref(n.Expression).Name
                ELSE extractValue(JPtr(n.Expression))
             args == [i \in 1..Len(n.Arguments) |-> extractValue(n.Arguments[i])]
         IN functionName \o "(" \o Join(args, ", ") \o ")"

(***************************************************************************)
(* Inputs of the value reconstructor: JSON expression nodes as the         *)
(* compiler emits them, built from three leaves and bounded by the number  *)
(* of nodes, and beside them the raw scalars and the degenerate nodes.     *)
(***************************************************************************)
MaxSize == 5

Literal(v) == JMap([nodeType |-> JStr("Literal"), value |-> JStr(v)])

Identifier(n) == JMap([nodeType |-> JStr("Identifier"), name |-> JStr(n)])

MemberAccess == JMap([nodeType |-> JStr("MemberAccess")])

UnaryOperation(op, sub) ==
    JMap([nodeType |-> JStr("UnaryOperation"), operator |-> JStr(op),
          subExpression |-> sub])

BinaryOperation(op, l, r) ==
    JMap([nodeType |-> JStr("BinaryOperation"), operator |-> JStr(op),
          leftExpression |-> l, rightExpression |-> r])

FunctionCall(e, args) ==
    JMap([nodeType |-> JStr("FunctionCall"), expression |-> e,
          arguments |-> JSlice(args)])

Leaves == {Literal("1"), Identifier("a"), MemberAccess}

RECURSIVE ExprOfSize(_)
RECURSIVE ArgsOfSize(_)
ExprOfSize(n) ==
    IF n = 1 THEN Leaves
    ELSE {UnaryOperation("-", s) : s \in ExprOfSize(n - 1)}
         \cup UNION {{BinaryOperation("+", l, r) :
                        l \in ExprOfSize(i), r \in ExprOfSize(n - 1 - i)} :
                     i \in 1..(n - 2)}
         \cup UNION {{FunctionCall(e, args) :
                        e \in ExprOfSize(i), args \in ArgsOfSize(n - 1 - i)} :
                     i \in 1..(n - 1)}

ArgsOfSize(k) ==
    IF k = 0 THEN {<<>>}
    ELSE UNION {{<<h>> \o t : h \in ExprOfSize(j), t \in ArgsOfSize(k - j)} :
                j \in 1..k}

Degenerate ==
    { JNil, JStr("0x01"), JNum(7), JBool(TRUE), JSlice(<<JNum(1)>>),
      JMap([nodeType |-> JStr("Literal"), hexValue |-> JStr("ff")]),
      JMap([nodeType |-> JStr("Literal"), value |-> JNum(1)]),
      JMap([nodeType |-> JStr("Literal"), value |-> JNil]),
      JMap([nodeType |-> JStr("Literal"), value |-> JNil, hexValue |-> JStr("c0de")]),
      JMap([nodeType |-> JStr("Literal"), value |-> JBool(FALSE)]),
      JMap([nodeType |-> JStr("Literal"), value |-> JStr(""), hexValue |-> JStr("")]),
      JMap([nodeType |-> JStr("Literal")]),
      JMap([nodeType |-> JStr("Conditional"), name |-> JStr("a"),
            value |-> JStr("1")]),
      JMap([name |-> JStr("a")]),
      JMap([nodeType |-> JStr("Literal"), value |-> JStr("1"),
            hexValue |-> JStr("31")]),
      JMap([nodeType |-> JStr("UnaryOperation"), operator |-> JStr("!")]),
      JMap([nodeType |-> JStr("BinaryOperation"), operator |-> JStr("*"),
            rightExpression |-> Literal("1")]),
      JMap([nodeType |-> JStr("FunctionCall"),
            arguments |-> JSlice(<<Literal("1")>>)]),
      JMap([nodeType |-> JStr("FunctionCall"), expression |-> Identifier("f"),
            arguments |-> JSlice(<<JStr("x"), JNum(2), Identifier("a")>>)]),
      JMap([nodeType |-> JStr("UnaryOperation"), operator |-> JNum(1),
            subExpression |-> Literal("1")]),
      JMap([nodeType |-> JStr("Identifier"), name |-> JStr("a"),
            subExpression |-> JStr("a")]) }

ValueInputs == Degenerate \cup UNION {ExprOfSize(n) : n \in 1..MaxSize}

(***************************************************************************)
(* The domain model: zero values of Contract and of its parts.             *)
(***************************************************************************)
ZeroContract ==
    [ Name |-> "", Pragma |-> "", Imports |-> <<>>, Inherits |-> <<>>,
      Constructor |-> Nil, Variables |-> <<>>, Functions |-> <<>>,
      Events |-> <<>>, Modifiers |-> <<>>, Structs |-> <<>>, Enums |-> <<>>,
      Mappings |-> <<>> ]

(***************************************************************************)
(* The extraction engine, one operator per Go function.                    *)
(***************************************************************************)
ExtractPragmaDirective(node) == "pragma " \o Join(node.Literals, "") \o ";"

ExtractImportDirective(node) ==
    [ AbsolutePath |-> node.AbsolutePath, File |-> node.File, Alias |-> node.Name ]

ExtractVariable(node) ==
    [ Name |-> node.Name,
      Type |-> extractTypeName(node.TypeName),
      Visibility |-> node.Visibility,
      StateVariable |-> node.StateVariable,
      StorageLocation |-> node.StorageLocation,
      Constant |-> node.Constant,
      Mutability |-> node.Mutability,
      FunctionSelector |-> node.FunctionSelector,
      Value |-> IF node.Value # JNil THEN extractValue(node.Value) ELSE "" ]

\* A slip: a parameter is indexed whenever its node carries the flag, set or not.
ExtractParameterFlagPresent(node) ==
    [ Name |-> node.Name,
      Type |-> extractTypeName(node.TypeName),
      Indexed |-> node.Indexed # Nil ]

ExtractParameter(node) ==
    [ Name |-> node.Name,
      Type |-> extractTypeName(node.TypeName),
      Indexed |-> IF node.Indexed # Nil THEN Deref(node.Indexed) ELSE FALSE ]

\* The loop "for _, paramNode := range list.Parameters" over a *ParameterList.
ExtractParameterList(list) ==
    IF list = Nil THEN <<>>
    ELSE [i \in 1..Len(Deref(list).Parameters) |->
             ExtractParameter(Deref(list).Parameters[i])]

\* A slip: the modifier invocations are listed last to first.
ExtractModifiersReversed(node) ==
    [i \in 1..Len(node.Modifiers) |->
        node.Modifiers[Len(node.Modifiers) + 1 - i].ModifierName.Name]

ExtractModifiers(node) ==
    [i \in 1..Len(node.Modifiers) |-> node.Modifiers[i].ModifierName.Name]

ExtractFunction(node) ==
    [ Name |-> node.Name,
      Kind |-> node.Kind,
      Visibility |-> node.Visibility,
      StateMutability |-> node.StateMutability,
      Modifiers |-> ExtractModifiers(node),
      BaseFunctions |-> node.BaseFunctions,
      Overrides |->
         IF node.Overrides # Nil
         THEN [i \in 1..Len(Deref(node.Overrides).Overrides) |->
                  Deref(node.Overrides).Overrides[i].Name]
         ELSE <<>>,
      Parameters |-> ExtractParameterList(node.Parameters),
      ReturnParameters |-> ExtractParameterList(node.ReturnParameters) ]

ExtractEvent(node) ==
    [ Name |-> node.Name, Parameters |-> ExtractParameterList(node.Parameters) ]

ExtractModifier(node) ==
    [ Name |-> node.Name, Parameters |-> ExtractParameterList(node.Parameters) ]

\* A slip: a struct member whose type is a mapping is left out.
ExtractStructNoMappings(node) ==
    LET kept == SelectSeq(node.Members,
                          LAMBDA m : ~(m.TypeName # Nil
                                       /\ Deref(m.TypeName).NodeType = "Mapping"))
    IN [ Name |-> node.Name,
         Members |-> [i \in 1..Len(kept) |-> ExtractVariable(kept[i])] ]

ExtractStruct(node) ==
    [ Name |-> node.Name,
      Members |-> [i \in 1..Len(node.Members) |-> ExtractVariable(node.Members[i])] ]

ExtractEnum(node) ==
    LET values == SelectSeq(node.Members, LAMBDA m : m.NodeType = "EnumValue")
    IN [ Name |-> node.Name, Values |-> [i \in 1..Len(values) |-> values[i].Name] ]

(***************************************************************************)
(* ExtractContractDefinition: the inheritance loop, then one iteration of  *)
(* the member loop per member node (the body of its switch).               *)
(***************************************************************************)
\* A slip: any declaration that has a type subtree is taken for a mapping.
IsMappingDeclarationAnyType(member) == member.TypeName # Nil

IsMappingDeclaration(member) ==
    member.TypeName # Nil /\ Deref(member.TypeName).NodeType = "Mapping"

\* A slip: the base names replace the Inherits list instead of extending it.
ExtractInheritsOverwrite(node, contract) ==
    [contract EXCEPT !.Inherits =
        [i \in 1..Len(node.BaseContracts) |-> node.BaseContracts[i].BaseName.Name]]

\* A slip: a base name listed twice is recorded once.
ExtractInheritsDistinct(node, contract) ==
    LET names == [i \in 1..Len(node.BaseContracts) |-> node.BaseContracts[i].BaseName.Name]
        first == {i \in 1..Len(names) : \A j \in 1..(i - 1) : names[j] # names[i]}
    IN [contract EXCEPT !.Inherits =
           @ \o [k \in 1..Cardinality(first) |->
                   names[CHOOSE i \in first : Cardinality({j \in first : j < i}) = k - 1]]]

ExtractInherits(node, contract) ==
    [contract EXCEPT !.Inherits =
        @ \o [i \in 1..Len(node.BaseContracts) |-> node.BaseContracts[i].BaseName.Name]]

\* A slip: a constructor is stored only while the slot is empty.
StoreFunctionKeepFirst(function, contract) ==
    IF function.Kind = "constructor"
    THEN (IF contract.Constructor = Nil
          THEN [contract EXCEPT !.Constructor = Ref(function)]
          ELSE contract)
    ELSE [contract EXCEPT !.Functions = Append(@, function)]

\* The FunctionDefinition case: the Constructor slot or the Functions list.
StoreFunction(function, contract) ==
    IF function.Kind = "constructor"
    THEN [contract EXCEPT !.Constructor = Ref(function)]
    ELSE [contract EXCEPT !.Functions = Append(@, function)]

\* A slip: a member of any other kind is recorded as a variable.
ExtractMemberOtherAsVariable(member, contract) ==
    CASE member.NodeType = "VariableDeclaration" ->
            IF IsMappingDeclaration(member)
            THEN [contract EXCEPT !.Mappings = Append(@, ExtractVariable(member))]
            ELSE [contract EXCEPT !.Variables = Append(@, ExtractVariable(member))]
      [] member.NodeType = "FunctionDefinition" ->
            StoreFunction(ExtractFunction(member), contract)
      [] member.NodeType = "EventDefinition" ->
            [contract EXCEPT !.Events = Append(@, ExtractEvent(member))]
      [] member.NodeType = "ModifierDefinition" ->
            [contract EXCEPT !.Modifiers = Append(@, ExtractModifier(member))]
      [] member.NodeType = "StructDefinition" ->
            [contract EXCEPT !.Structs = Append(@, ExtractStruct(member))]
      [] member.NodeType = "EnumDefinition" ->
            [contract EXCEPT !.Enums = Append(@, ExtractEnum(member))]
      [] OTHER -> [contract EXCEPT !.Variables = Append(@, ExtractVariable(member))]

ExtractMember(member, contract) ==
    CASE member.NodeType = "VariableDeclaration" ->
            IF IsMappingDeclaration(member)
            THEN [contract EXCEPT !.Mappings = Append(@, ExtractVariable(member))]
            ELSE [contract EXCEPT !.Variables = Append(@, ExtractVariable(member))]
      [] member.NodeType = "FunctionDefinition" ->
            StoreFunction(ExtractFunction(member), contract)
      [] member.NodeType = "EventDefinition" ->
            [contract EXCEPT !.Events = Append(@, ExtractEvent(member))]
      [] member.NodeType = "ModifierDefinition" ->
            [contract EXCEPT !.Modifiers = Append(@, ExtractModifier(member))]
      [] member.NodeType = "StructDefinition" ->
            [contract EXCEPT !.Structs = Append(@, ExtractStruct(member))]
      [] member.NodeType = "EnumDefinition" ->
            [contract EXCEPT !.Enums = Append(@, ExtractEnum(member))]
      [] OTHER -> contract

RECURSIVE ExtractMembers(_, _)
ExtractMembers(members, contract) ==
    IF members = <<>> THEN contract
    ELSE ExtractMembers(Tail(members), ExtractMember(Head(members), contract))

ExtractContractDefinition(node, contract) ==
    ExtractMembers(node.Nodes, ExtractInherits(node, contract))

(***************************************************************************)
(* ExtractContractInfoFromAST: one iteration of the node loop per          *)
(* top-level node.                                                         *)
(***************************************************************************)
\* A slip: every contract definition renames the Contract.
AdoptNameAlways(node, contract) == [contract EXCEPT !.Name = node.Name]

AdoptName(node, contract) ==
    IF contract.Name = "" THEN [contract EXCEPT !.Name = node.Name] ELSE contract

\* A slip: a pragma directive is kept only while the Pragma is empty.
ExtractNodeKeepFirstPragma(node, contract) ==
    CASE node.NodeType = "PragmaDirective" ->
            IF contract.Pragma = ""
            THEN [contract EXCEPT !.Pragma = ExtractPragmaDirective(node)]
            ELSE contract
      [] node.NodeType = "ImportDirective" ->
            [contract EXCEPT !.Imports = Append(@, ExtractImportDirective(node))]
      [] node.NodeType = "ContractDefinition" ->
            ExtractContractDefinition(node, AdoptName(node, contract))
      [] OTHER -> contract

ExtractNode(node, contract) ==
    CASE node.NodeType = "PragmaDirective" ->
            [contract EXCEPT !.Pragma = ExtractPragmaDirective(node)]
      [] node.NodeType = "ImportDirective" ->
            [contract EXCEPT !.Imports = Append(@, ExtractImportDirective(node))]
      [] node.NodeType = "ContractDefinition" ->
            ExtractContractDefinition(node, AdoptName(node, contract))
      [] OTHER -> contract

RECURSIVE ExtractNodes(_, _)
ExtractNodes(nodes, contract) ==
    IF nodes = <<>> THEN contract
    ELSE ExtractNodes(Tail(nodes), ExtractNode(Head(nodes), contract))

ExtractContractInfoFromAST(ast, contract) == ExtractNodes(ast.Nodes, contract)

(***************************************************************************)
(* ParseContractFile. A file is [path, readable, wellFormed, abiFile]:     *)
(* whether os.ReadFile succeeds, whether json.Unmarshal succeeds, and the  *)
(* ABIFile it decodes to. The result is the pair (contract, err).          *)
(***************************************************************************)
\* A path is its stem and its extension (what filepath.Ext returns).
PathString(path) == path.stem \o path.ext

ReadError(path) == "open " \o path \o ": permission denied"

DecodeError(path) ==
    "failed to parse contract file " \o path \o ": unexpected end of JSON input"

NoAstError(path) == "no AST found in file " \o path

\* A slip: the contract-name field of the document is ignored.
NewContractUnnamed(abiFile) == ZeroContract

NewContract(abiFile) == [ZeroContract EXCEPT !.Name = abiFile.ContractName]

\* A slip: a document without nodes yields an empty Contract and no error.
ParseContractFileLenient(file) ==
    IF ~file.readable
    THEN [contract |-> Nil, err |-> Ref(ReadError(PathString(file.path)))]
    ELSE IF ~file.wellFormed
    THEN [contract |-> Nil, err |-> Ref(DecodeError(PathString(file.path)))]
    ELSE [contract |-> Ref(ExtractContractInfoFromAST(file.abiFile.AST,
                                                      NewContract(file.abiFile))),
          err |-> Nil]

ParseContractFile(file) ==
    IF ~file.readable
    THEN [contract |-> Nil, err |-> Ref(ReadError(PathString(file.path)))]
    ELSE IF ~file.wellFormed
    THEN [contract |-> Nil, err |-> Ref(DecodeError(PathString(file.path)))]
    ELSE IF Len(file.abiFile.AST.Nodes) > 0
    THEN [contract |-> Ref(ExtractContractInfoFromAST(file.abiFile.AST,
                                                      NewContract(file.abiFile))),
          err |-> Nil]
    ELSE [contract |-> Nil, err |-> Ref(NoAstError(PathString(file.path)))]

(***************************************************************************)
(* Inputs of the extraction engine: type subtrees, member nodes, top-level *)
(* nodes and documents.                                                    *)
(***************************************************************************)
MaxNodes == 3

MaxMembers == 2

Elementary(name) == Ref(TypeName([NodeType |-> "ElementaryTypeName", Name |-> name]))

MappingType(k, v) ==
    Ref(TypeName([NodeType |-> "Mapping", KeyType |-> k, ValueType |-> v]))

Param(name, type) ==
    ASTNode([NodeType |-> "VariableDeclaration", Name |-> name, TypeName |-> type])

ParameterList(params) == Ref([Parameters |-> params])

VarElementary ==
    ASTNode([NodeType |-> "VariableDeclaration", Name |-> "total",
             TypeName |-> Elementary("uint256"), Visibility |-> "public",
             StateVariable |-> TRUE, Constant |-> TRUE,
             Mutability |-> "constant", FunctionSelector |-> "18160ddd",
             Value |-> Literal("1")])

VarMapping ==
    ASTNode([NodeType |-> "VariableDeclaration", Name |-> "balances",
             TypeName |-> MappingType(Elementary("address"), Elementary("uint256")),
             Visibility |-> "internal", StateVariable |-> TRUE])

VarUntyped ==
    ASTNode([NodeType |-> "VariableDeclaration", Name |-> "legacy",
             StateVariable |-> TRUE])

FunctionTransfer ==
    ASTNode([NodeType |-> "FunctionDefinition", Name |-> "transfer",
             Kind |-> "function", Visibility |-> "external",
             StateMutability |-> "nonpayable",
             Parameters |-> ParameterList(<<Param("to", Elementary("address")),
                                            Param("amount", Elementary("uint256"))>>),
             ReturnParameters |-> ParameterList(<<Param("", Elementary("bool"))>>),
             Modifiers |-> <<[ModifierName |-> ASTNode([Name |-> "whenOpen"])],
                             [ModifierName |-> ASTNode([Name |-> "onlyOwner"])]>>,
             BaseFunctions |-> <<11, 7>>,
             Overrides |-> Ref([Overrides |-> <<ASTNode([Name |-> "IERC20"]),
                                               ASTNode([Name |-> "Base"])>>])])

ConstructorOwner ==
    ASTNode([NodeType |-> "FunctionDefinition", Kind |-> "constructor",
             Visibility |-> "public",
             Parameters |-> ParameterList(<<Param("owner", Elementary("address"))>>),
             ReturnParameters |-> ParameterList(<<>>)])

ConstructorPlain ==
    ASTNode([NodeType |-> "FunctionDefinition", Kind |-> "constructor",
             StateMutability |-> "payable"])

EventTransfer ==
    ASTNode([NodeType |-> "EventDefinition", Name |-> "Transfer",
             Parameters |-> ParameterList(
                <<[Param("from", Elementary("address")) EXCEPT !.Indexed = Ref(TRUE)],
                  [Param("value", Elementary("uint256")) EXCEPT !.Indexed = Ref(FALSE)],
                  Param("memo", Elementary("string"))>>)])

ModifierOnlyOwner ==
    ASTNode([NodeType |-> "ModifierDefinition", Name |-> "onlyOwner",
             Parameters |-> ParameterList(<<>>)])

StructAccount ==
    ASTNode([NodeType |-> "StructDefinition", Name |-> "Account",
             Members |-> <<[VarMapping EXCEPT !.StateVariable = FALSE],
                           [VarUntyped EXCEPT !.TypeName = Elementary("uint8"),
                                              !.StateVariable = FALSE]>>])

EnumState ==
    ASTNode([NodeType |-> "EnumDefinition", Name |-> "State",
             Members |-> <<ASTNode([NodeType |-> "EnumValue", Name |-> "Open"]),
                           ASTNode([NodeType |-> "Comment", Name |-> "note"]),
                           ASTNode([NodeType |-> "EnumValue", Name |-> "Closed"])>>])

UsingFor == ASTNode([NodeType |-> "UsingForDirective"])

\* Declarations whose parameter nodes carry the indexed flag outside an event.
FunctionFlagged ==
    ASTNode([NodeType |-> "FunctionDefinition", Name |-> "flagged",
             Kind |-> "function", Visibility |-> "public",
             Parameters |-> ParameterList(
                <<[Param("id", Elementary("uint256")) EXCEPT !.Indexed = Ref(TRUE)]>>),
             ReturnParameters |-> ParameterList(
                <<[Param("", Elementary("bool")) EXCEPT !.Indexed = Ref(FALSE)]>>)])

ModifierLimit ==
    ASTNode([NodeType |-> "ModifierDefinition", Name |-> "limit",
             Parameters |-> ParameterList(
                <<[Param("max", Elementary("uint256")) EXCEPT !.Indexed = Ref(TRUE)],
                  Param("min", Elementary("uint256"))>>)])

MemberPool ==
    { VarElementary, VarMapping, VarUntyped, FunctionTransfer, ConstructorOwner,
      ConstructorPlain, EventTransfer, ModifierOnlyOwner, StructAccount,
      EnumState, UsingFor, FunctionFlagged, ModifierLimit }

BaseContract(name) == [BaseName |-> [Name |-> name]]

ContractDefinition(name, bases, members) ==
    ASTNode([NodeType |-> "ContractDefinition", Name |-> name,
             BaseContracts |-> [i \in 1..Len(bases) |-> BaseContract(bases[i])],
             Nodes |-> members])

PragmaSolidity ==
    ASTNode([NodeType |-> "PragmaDirective",
             Literals |-> <<"solidity", "^", "0.8", ".0">>])

PragmaAbicoder ==
    ASTNode([NodeType |-> "PragmaDirective", Literals |-> <<"abicoder", "v2">>])

ImportOwnable ==
    ASTNode([NodeType |-> "ImportDirective", AbsolutePath |-> "lib/Ownable.sol",
             File |-> "./Ownable.sol", Name |-> "Own"])

NodePool ==
    { PragmaSolidity, PragmaAbicoder, ImportOwnable,
      [StructAccount EXCEPT !.Name = "Free"],
      ContractDefinition("Base", <<>>, <<ConstructorOwner, FunctionTransfer>>),
      ContractDefinition("Token", <<"Base", "Base">>,
                         <<VarMapping, ConstructorPlain, EventTransfer>>),
      ContractDefinition("", <<"Ownable">>, <<VarElementary>>) }

\* The sequences over S of length at most n.
SeqUpTo(S, n) == UNION {[1..k -> S] : k \in 0..n}

Documents ==
    { [ContractName |-> name, AST |-> [Nodes |-> nodes]] :
         name \in {"", "Wallet"}, nodes \in SeqUpTo(NodePool, MaxNodes) }
    \cup
    { [ContractName |-> "", AST |-> [Nodes |-> <<ContractDefinition("Vault", <<>>, members)>>]] :
         members \in SeqUpTo(MemberPool, MaxMembers) }

JsonPath(stem) == [stem |-> stem, ext |-> ".json"]

EmptyAbiFile == [ContractName |-> "", AST |-> [Nodes |-> <<>>]]

ExtractFiles ==
    { [path |-> JsonPath("data/Doc"), readable |-> TRUE, wellFormed |-> TRUE,
       abiFile |-> d] : d \in Documents }
    \cup
    { [path |-> JsonPath("data/Doc"), readable |-> FALSE, wellFormed |-> TRUE,
       abiFile |-> EmptyAbiFile],
      [path |-> JsonPath("data/Doc"), readable |-> TRUE, wellFormed |-> FALSE,
       abiFile |-> EmptyAbiFile] }

(***************************************************************************)
(* Inputs of the type renderer: type subtrees bounded by the number of     *)
(* mapping and array nodes they hold. A user-defined type carries any      *)
(* combination of a type description, a declared name and a path node,     *)
(* each absent, empty or set. The length of an array is absent, the        *)
(* literal node the compiler emits for a fixed length, or a bare number.   *)
(***************************************************************************)
MaxNesting == 2

ArrayType(base, length) ==
    Ref(TypeName([NodeType |-> "ArrayTypeName", BaseType |-> base, Length |-> length]))

UserDefined(descriptions, name, pathNode) ==
    Ref(TypeName([NodeType |-> "UserDefinedTypeName", Name |-> name,
                  TypeDescriptions |-> descriptions, PathNode |-> pathNode]))

FunctionType == Ref(TypeName([NodeType |-> "FunctionTypeName", Name |-> "callback"]))

LengthLiteral ==
    JMap([nodeType |-> JStr("Literal"), hexValue |-> JStr("33"), value |-> JStr("3")])

Lengths == {JNil, LengthLiteral, JNum(3)}

UserDefinedTypes ==
    { UserDefined(d, n, p) :
         d \in {Nil, Ref([TypeString |-> ""]), Ref([TypeString |-> "contract IERC20"])},
         n \in {"", "IERC20"},
         p \in {Nil, Ref([Name |-> ""]), Ref([Name |-> "lib.IERC20"])} }

TypeLeaves ==
    { Nil, Elementary("uint256"), Elementary("address"),
      UserDefined(Nil, "", Ref([Name |-> "lib.IERC20"])), FunctionType }

RECURSIVE TypesOfNesting(_)
TypesOfNesting(n) ==
    IF n = 0 THEN TypeLeaves
    ELSE {ArrayType(b, l) : b \in TypesOfNesting(n - 1), l \in Lengths}
         \cup UNION {{MappingType(k, v) :
                        k \in TypesOfNesting(i), v \in TypesOfNesting(n - 1 - i)} :
                     i \in 0..(n - 1)}

TypeInputs == UserDefinedTypes \cup UNION {TypesOfNesting(n) : n \in 0..MaxNesting}

(***************************************************************************)
(* Inputs of ParseAllContracts: the entries filepath.Walk visits, in walk  *)
(* order. An entry is a directory, a file, or a path Walk could not stat   *)
(* (accessErr); for a file, what ParseContractFile needs.                  *)
(***************************************************************************)
MaxFiles == 3

RegistryDocuments ==
    { [ContractName |-> "Token",
       AST |-> [Nodes |-> <<PragmaSolidity,
                            ContractDefinition("Impl", <<>>, <<FunctionTransfer>>)>>]],
      [ContractName |-> "",
       AST |-> [Nodes |-> <<ContractDefinition("Token", <<"Base">>,
                                               <<VarMapping, ConstructorOwner>>)>>]],
      [ContractName |-> "",
       AST |-> [Nodes |-> <<ImportOwnable,
                            ContractDefinition("Vault", <<>>, <<EventTransfer>>)>>]],
      [ContractName |-> "", AST |-> [Nodes |-> <<PragmaAbicoder>>]],
      [ContractName |-> "Token", AST |-> [Nodes |-> <<>>]] }

Entry(path, isDir, accessErr, readable, wellFormed, abiFile) ==
    [ path |-> path, isDir |-> isDir, accessErr |-> accessErr,
      readable |-> readable, wellFormed |-> wellFormed, abiFile |-> abiFile ]

EntriesAt(i) ==
    LET stem == "data/e" \o ToString(i) IN
    { Entry([stem |-> stem, ext |-> ""], TRUE, FALSE, TRUE, TRUE, EmptyAbiFile),
      Entry([stem |-> stem, ext |-> ".txt"], FALSE, FALSE, TRUE, TRUE, EmptyAbiFile),
      Entry(JsonPath(stem), FALSE, TRUE, TRUE, TRUE, EmptyAbiFile),
      Entry(JsonPath(stem), FALSE, FALSE, FALSE, TRUE, EmptyAbiFile),
      Entry(JsonPath(stem), FALSE, FALSE, TRUE, FALSE, EmptyAbiFile) }
    \cup { Entry(JsonPath(stem), FALSE, FALSE, TRUE, TRUE, d) : d \in RegistryDocuments }

RECURSIVE WalksOfLen(_)
WalksOfLen(k) ==
    IF k = 0 THEN {<<>>}
    ELSE {Append(w, e) : w \in WalksOfLen(k - 1), e \in EntriesAt(k)}

Walks == UNION {WalksOfLen(k) : k \in 0..MaxFiles}

(***************************************************************************)
(* State.                                                                  *)
(*   value, rendered, vpc      one call of extractValue                    *)
(*   typeName, typeRendered, tpc                                           *)
(*                             one call of extractTypeName                 *)
(*   file, contract, nodeIdx, memberIdx, parsed, xpc                       *)
(*                             one call of ParseContractFile, stepped      *)
(*                             through the node loop and the member loop   *)
(*   walk, walkIdx, contracts, returned, wpc                               *)
(*                             one call of ParseAllContracts, one step per *)
(*                             call of the walk function                   *)
(*   registry, contractsList, detailsList, codeParagraph,                  *)
(*   selectedContract, contractsListSelected, detailsListSelected,         *)
(*   event, upc                the terminal browser of main: registry is   *)
(*                             main's local map `contracts`, the others    *)
(*                             are its widgets and locals, event is the    *)
(*                             event being handled and upc the position    *)
(*                             of the event loop                           *)
(***************************************************************************)
VARIABLES value, rendered, vpc,
          typeName, typeRendered, tpc,
          file, contract, nodeIdx, memberIdx, parsed, xpc,
          walk, walkIdx, contracts, returned, wpc,
          registry, contractsList, detailsList, codeParagraph,
          selectedContract, contractsListSelected, detailsListSelected,
          event, upc

valueVars == <<value, rendered, vpc>>

typeVars == <<typeName, typeRendered, tpc>>

parseVars == <<file, contract, nodeIdx, memberIdx, parsed, xpc>>

walkVars == <<walk, walkIdx, contracts, returned, wpc>>

uiVars == <<registry, contractsList, detailsList, codeParagraph,
            selectedContract, contractsListSelected, detailsListSelected,
            event, upc>>

vars == <<value, rendered, vpc, typeName, typeRendered, tpc,
          file, contract, nodeIdx, memberIdx, parsed, xpc,
          walk, walkIdx, contracts, returned, wpc,
          registry, contractsList, detailsList, codeParagraph,
          selectedContract, contractsListSelected, detailsListSelected,
          event, upc>>

NoResult == [contract |-> Nil, err |-> Nil]

ValueIdle == value = JNil /\ rendered = "" /\ vpc = "idle"

TypeIdle == typeName = Nil /\ typeRendered = "" /\ tpc = "idle"

ParseIdle ==
    /\ file = [path |-> JsonPath(""), readable |-> FALSE, wellFormed |-> FALSE,
               abiFile |-> EmptyAbiFile]
    /\ contract = Nil /\ nodeIdx = 0 /\ memberIdx = 0
    /\ parsed = NoResult /\ xpc = "idle"

WalkIdle ==
    /\ walk = <<>> /\ walkIdx = 0 /\ contracts = <<>>
    /\ returned = [contracts |-> Nil, err |-> Nil] /\ wpc = "idle"

UIIdle ==
    /\ registry = <<>>
    /\ contractsList = [Title |-> "", Rows |-> <<>>, SelectedRow |-> 0]
    /\ detailsList = [Title |-> "", Rows |-> <<>>, SelectedRow |-> 0]
    /\ codeParagraph = [Title |-> "", Text |-> ""]
    /\ selectedContract = Nil
    /\ contractsListSelected = FALSE /\ detailsListSelected = FALSE
    /\ event = "" /\ upc = "idle"

(***************************************************************************)
(* extractValue, applied to one input.                                     *)
(***************************************************************************)
InitValue ==
    /\ value \in ValueInputs /\ rendered = "" /\ vpc = "call"
    /\ TypeIdle /\ ParseIdle /\ WalkIdle /\ UIIdle

RenderValue ==
    /\ vpc = "call"
    /\ rendered' = extractValue(value)
    /\ vpc' = "done"
    /\ UNCHANGED <<value, typeVars, parseVars, walkVars, uiVars>>

NextValue == RenderValue

SpecValue == InitValue /\ [][NextValue]_vars

(***************************************************************************)
(* extractTypeName, applied to one type subtree.                           *)
(***************************************************************************)
InitType ==
    /\ typeName \in TypeInputs /\ typeRendered = "" /\ tpc = "call"
    /\ ValueIdle /\ ParseIdle /\ WalkIdle /\ UIIdle

RenderType ==
    /\ tpc = "call"
    /\ typeRendered' = extractTypeName(typeName)
    /\ tpc' = "done"
    /\ UNCHANGED <<typeName, valueVars, parseVars, walkVars, uiVars>>

NextType == RenderType

SpecType == InitType /\ [][NextType]_vars

(***************************************************************************)
(* ParseContractFile on one file, one step per early return, per           *)
(* iteration of the node loop of ExtractContractInfoFromAST and per        *)
(* iteration of the member loop of ExtractContractDefinition.              *)
(***************************************************************************)
InitParse ==
    /\ file \in ExtractFiles
    /\ contract = Nil /\ nodeIdx = 0 /\ memberIdx = 0
    /\ parsed = NoResult /\ xpc = "call"
    /\ ValueIdle /\ TypeIdle /\ WalkIdle /\ UIIdle

Nodes == file.abiFile.AST.Nodes

CurNode == Nodes[nodeIdx]

CurMember == CurNode.Nodes[memberIdx]

Return(result) ==
    /\ parsed' = result
    /\ xpc' = "returned"
    /\ UNCHANGED <<file, contract, nodeIdx, memberIdx, valueVars, typeVars, walkVars, uiVars>>

ReadFails ==
    /\ xpc = "call" /\ ~file.readable
    /\ Return(ParseContractFile(file))

DecodeFails ==
    /\ xpc = "call" /\ file.readable /\ ~file.wellFormed
    /\ Return(ParseContractFile(file))

NoAst ==
    /\ xpc = "call" /\ file.readable /\ file.wellFormed
    /\ ~(Len(Nodes) > 0)
    /\ Return(ParseContractFile(file))

BeginExtract ==
    /\ xpc = "call" /\ file.readable /\ file.wellFormed
    /\ Len(Nodes) > 0
    /\ contract' = Ref(NewContract(file.abiFile))
    /\ nodeIdx' = 1
    /\ xpc' = "nodes"
    /\ UNCHANGED <<file, memberIdx, parsed, valueVars, typeVars, walkVars, uiVars>>

\* An iteration of the node loop that does not enter a contract definition.
NodeDone ==
    /\ contract' = Ref(ExtractNode(CurNode, Deref(contract)))
    /\ nodeIdx' = nodeIdx + 1
    /\ UNCHANGED <<file, memberIdx, parsed, xpc, valueVars, typeVars, walkVars, uiVars>>

NodePragma ==
    /\ xpc = "nodes" /\ nodeIdx <= Len(Nodes)
    /\ CurNode.NodeType = "PragmaDirective"
    /\ NodeDone

NodeImport ==
    /\ xpc = "nodes" /\ nodeIdx <= Len(Nodes)
    /\ CurNode.NodeType = "ImportDirective"
    /\ NodeDone

NodeOther ==
    /\ xpc = "nodes" /\ nodeIdx <= Len(Nodes)
    /\ CurNode.NodeType \notin {"PragmaDirective", "ImportDirective", "ContractDefinition"}
    /\ NodeDone

\* The name is adopted and the inheritance loop runs; the member loop follows.
EnterContractDefinition ==
    /\ xpc = "nodes" /\ nodeIdx <= Len(Nodes)
    /\ CurNode.NodeType = "ContractDefinition"
    /\ contract' = Ref(ExtractInherits(CurNode, AdoptName(CurNode, Deref(contract))))
    /\ memberIdx' = 1
    /\ xpc' = "members"
    /\ UNCHANGED <<file, nodeIdx, parsed, valueVars, typeVars, walkVars, uiVars>>

\* An iteration of the member loop.
MemberDone ==
    /\ contract' = Ref(ExtractMember(CurMember, Deref(contract)))
    /\ memberIdx' = memberIdx + 1
    /\ UNCHANGED <<file, nodeIdx, parsed, xpc, valueVars, typeVars, walkVars, uiVars>>

MemberVariable ==
    /\ xpc = "members" /\ memberIdx <= Len(CurNode.Nodes)
    /\ CurMember.NodeType = "VariableDeclaration"
    /\ MemberDone

MemberFunction ==
    /\ xpc = "members" /\ memberIdx <= Len(CurNode.Nodes)
    /\ CurMember.NodeType = "FunctionDefinition"
    /\ MemberDone

MemberEvent ==
    /\ xpc = "members" /\ memberIdx <= Len(CurNode.Nodes)
    /\ CurMember.NodeType = "EventDefinition"
    /\ MemberDone

MemberModifier ==
    /\ xpc = "members" /\ memberIdx <= Len(CurNode.Nodes)
    /\ CurMember.NodeType = "ModifierDefinition"
    /\ MemberDone

MemberStruct ==
    /\ xpc = "members" /\ memberIdx <= Len(CurNode.Nodes)
    /\ CurMember.NodeType = "StructDefinition"
    /\ MemberDone

MemberEnum ==
    /\ xpc = "members" /\ memberIdx <= Len(CurNode.Nodes)
    /\ CurMember.NodeType = "EnumDefinition"
    /\ MemberDone

MemberKinds ==
    { "VariableDeclaration", "FunctionDefinition", "EventDefinition",
      "ModifierDefinition", "StructDefinition", "EnumDefinition" }

MemberOther ==
    /\ xpc = "members" /\ memberIdx <= Len(CurNode.Nodes)
    /\ CurMember.NodeType \notin MemberKinds
    /\ MemberDone

LeaveContractDefinition ==
    /\ xpc = "members" /\ memberIdx > Len(CurNode.Nodes)
    /\ memberIdx' = 0
    /\ nodeIdx' = nodeIdx + 1
    /\ xpc' = "nodes"
    /\ UNCHANGED <<file, contract, parsed, valueVars, typeVars, walkVars, uiVars>>

ReturnContract ==
    /\ xpc = "nodes" /\ nodeIdx > Len(Nodes)
    /\ Return([contract |-> contract, err |-> Nil])

NextParse ==
    \/ ReadFails \/ DecodeFails \/ NoAst \/ BeginExtract
    \/ NodePragma \/ NodeImport \/ NodeOther
    \/ EnterContractDefinition
    \/ MemberVariable \/ MemberFunction \/ MemberEvent \/ MemberModifier
    \/ MemberStruct \/ MemberEnum \/ MemberOther
    \/ LeaveContractDefinition \/ ReturnContract

SpecParse == InitParse /\ [][NextParse]_vars

(***************************************************************************)
(* ParseAllContracts: one step per call of the walk function, which        *)
(* returns an error (ending the walk: ParseAllContracts returns nil and    *)
(* the error) or nil (the walk goes on to the next entry).                 *)
(***************************************************************************)
AccessError(path, err) == "error accessing file " \o path \o ": " \o err

ParseError(path, err) == "error parsing file " \o path \o ": " \o err

LstatError(path) == "lstat " \o path \o ": permission denied"

\* A slip: an entry already present under the name is kept.
InsertKeepFirst(m, c) == m @@ (c.Name :> c)

\* contracts[contract.Name] = contract
Insert(m, c) == (c.Name :> c) @@ m

IsJsonFile(entry) == ~entry.isDir /\ entry.path.ext = ".json"

InitWalk ==
    /\ walk \in Walks
    /\ walkIdx = 1
    /\ contracts = <<>>
    /\ returned = [contracts |-> Nil, err |-> Nil]
    /\ wpc = "walking"
    /\ ValueIdle /\ TypeIdle /\ ParseIdle /\ UIIdle

CurEntry == walk[walkIdx]

\* A slip: the map built so far is returned beside the error.
AbortPartial(err) ==
    /\ returned' = [contracts |-> Ref(contracts), err |-> Ref(err)]
    /\ wpc' = "returned"
    /\ UNCHANGED <<walk, walkIdx, contracts, valueVars, typeVars, parseVars, uiVars>>

\* The walk function returns err: Walk stops and ParseAllContracts returns (nil, err).
Abort(err) ==
    /\ returned' = [contracts |-> Nil, err |-> Ref(err)]
    /\ wpc' = "returned"
    /\ UNCHANGED <<walk, walkIdx, contracts, valueVars, typeVars, parseVars, uiVars>>

Continue ==
    /\ walkIdx' = walkIdx + 1
    /\ UNCHANGED <<walk, returned, wpc, valueVars, typeVars, parseVars, uiVars>>

VisitInaccessible ==
    /\ wpc = "walking" /\ walkIdx <= Len(walk)
    /\ CurEntry.accessErr
    /\ Abort(AccessError(PathString(CurEntry.path),
                         LstatError(PathString(CurEntry.path))))

VisitSkipped ==
    /\ wpc = "walking" /\ walkIdx <= Len(walk)
    /\ ~CurEntry.accessErr /\ ~IsJsonFile(CurEntry)
    /\ UNCHANGED contracts
    /\ Continue

\* A slip: the loader's error is returned as it is, without the prefix.
VisitFailingUnwrapped ==
    /\ wpc = "walking" /\ walkIdx <= Len(walk)
    /\ ~CurEntry.accessErr /\ IsJsonFile(CurEntry)
    /\ ParseContractFile(CurEntry).err # Nil
    /\ Abort(Deref(ParseContractFile(CurEntry).err))

VisitFailing ==
    /\ wpc = "walking" /\ walkIdx <= Len(walk)
    /\ ~CurEntry.accessErr /\ IsJsonFile(CurEntry)
    /\ ParseContractFile(CurEntry).err # Nil
    /\ Abort(ParseError(PathString(CurEntry.path),
                        Deref(ParseContractFile(CurEntry).err)))

VisitNamed ==
    /\ wpc = "walking" /\ walkIdx <= Len(walk)
    /\ ~CurEntry.accessErr /\ IsJsonFile(CurEntry)
    /\ ParseContractFile(CurEntry).err = Nil
    /\ Deref(ParseContractFile(CurEntry).contract).Name # ""
    /\ contracts' = Insert(contracts, Deref(ParseContractFile(CurEntry).contract))
    /\ Continue

\* A slip: a Contract without a name is inserted under the empty key.
VisitNamelessInserted ==
    /\ wpc = "walking" /\ walkIdx <= Len(walk)
    /\ ~CurEntry.accessErr /\ IsJsonFile(CurEntry)
    /\ ParseContractFile(CurEntry).err = Nil
    /\ Deref(ParseContractFile(CurEntry).contract).Name = ""
    /\ contracts' = Insert(contracts, Deref(ParseContractFile(CurEntry).contract))
    /\ Continue

VisitNameless ==
    /\ wpc = "walking" /\ walkIdx <= Len(walk)
    /\ ~CurEntry.accessErr /\ IsJsonFile(CurEntry)
    /\ ParseContractFile(CurEntry).err = Nil
    /\ Deref(ParseContractFile(CurEntry).contract).Name = ""
    /\ UNCHANGED contracts
    /\ Continue

WalkEnds ==
    /\ wpc = "walking" /\ walkIdx > Len(walk)
    /\ returned' = [contracts |-> Ref(contracts), err |-> Nil]
    /\ wpc' = "returned"
    /\ UNCHANGED <<walk, walkIdx, contracts, valueVars, typeVars, parseVars, uiVars>>

Next ==
    \/ VisitInaccessible \/ VisitSkipped \/ VisitFailing
    \/ VisitNamed \/ VisitNameless \/ WalkEnds

Init == InitWalk

Spec == Init /\ [][Next]_vars

(***************************************************************************)
(* The terminal browser (main): two lists and a paragraph driven by an     *)
(* event loop. The library calls it makes are modelled by what they do to  *)
(* the widgets: strings.HasPrefix, strings.Trim, strings.TrimSpace, the    *)
(* %v verb on a []string, List.ScrollUp and List.ScrollDown.               *)
(***************************************************************************)
HasPrefix(s, prefix) ==
    Len(s) >= Len(prefix) /\ SubSeq(s, 1, Len(prefix)) = prefix

InCutset(s, i, cutset) ==
    \E j \in 1..Len(cutset) : SubSeq(cutset, j, j) = SubSeq(s, i, i)

RECURSIVE TrimLeft(_, _)
TrimLeft(s, cutset) ==
    IF Len(s) > 0 /\ InCutset(s, 1, cutset)
    THEN TrimLeft(SubSeq(s, 2, Len(s)), cutset)
    ELSE s

RECURSIVE TrimRight(_, _)
TrimRight(s, cutset) ==
    IF Len(s) > 0 /\ InCutset(s, Len(s), cutset)
    THEN TrimRight(SubSeq(s, 1, Len(s) - 1), cutset)
    ELSE s

Trim(s, cutset) == TrimRight(TrimLeft(s, cutset), cutset)

\* The white space of unicode.IsSpace that a string of this module can hold:
\* space, tab, line feed, form feed, carriage return, vertical tab (U+000B),
\* next line (U+0085), no-break space (U+00A0) and ogham space (U+1680), the
\* last four written as the characters themselves. The other Unicode spaces
\* (U+2000 to U+200A, U+2028, U+2029, U+202F, U+205F, U+3000) cannot occur in
\* a string literal, so no string of the model contains them.
WhiteSpace == " \t\n\f\r  "

TrimSpace(s) == Trim(s, WhiteSpace)

\* fmt.Sprintf("%v", list) for a []string
FmtStrings(list) == "[" \o Join(list, " ") \o "]"

\* widgets.NewList() and widgets.NewParagraph(); SelectedRow counts from 0.
NewList ==
    [Title |-> "", Rows |-> <<>>, SelectedRow |-> 0, BorderStyle |-> "white",
     Rect |-> <<0, 0, 0, 0>>]

NewParagraph == [Title |-> "", Text |-> "", Rect |-> <<0, 0, 0, 0>>]

\* list.Rows[i] for a Go index i
Row(list, i) == list.Rows[i + 1]

InRange(list, i) == 0 <= i /\ i < Len(list.Rows)

ScrollAmount(list, amount) ==
    IF Len(list.Rows) - list.SelectedRow <= amount
    THEN [list EXCEPT !.SelectedRow = Len(list.Rows) - 1]
    ELSE IF list.SelectedRow + amount < 0
    THEN [list EXCEPT !.SelectedRow = 0]
    ELSE [list EXCEPT !.SelectedRow = @ + amount]

ScrollUp(list) == ScrollAmount(list, -1)

ScrollDown(list) == ScrollAmount(list, 1)

validateSelectedRow(list) ==
    IF Len(list.Rows) = 0 THEN [list EXCEPT !.SelectedRow = 0]
    ELSE IF list.SelectedRow >= Len(list.Rows)
    THEN [list EXCEPT !.SelectedRow = Len(list.Rows) - 1]
    ELSE IF list.SelectedRow < 0 THEN [list EXCEPT !.SelectedRow = 0]
    ELSE list

\* list.SetRect(x1, y1, x2, y2)
SetRect(widget, x1, y1, x2, y2) == [widget EXCEPT !.Rect = <<x1, y1, x2, y2>>]

\* UpdateUI on the locals m of main, in a terminal of the given size
\* <<termWidth, termHeight>>: the rectangles, the border of the panel that
\* has the focus, and the selected rows.
UpdateUI(m, size) ==
    LET termWidth == size[1]
        termHeight == size[2]
        placedContracts ==
            SetRect(m.contractsList, 0, 0, termWidth \div 4, termHeight)
        placedDetails ==
            SetRect(m.detailsList, termWidth \div 4, 0, termWidth \div 2, termHeight)
        placedCode ==
            SetRect(m.codeParagraph, termWidth \div 2, 0, termWidth, termHeight)
        styledContracts ==
            IF m.contractsListSelected
            THEN [placedContracts EXCEPT !.BorderStyle = "green"]
            ELSE IF m.detailsListSelected
            THEN [placedContracts EXCEPT !.BorderStyle = "white"]
            ELSE placedContracts
        styledDetails ==
            IF m.contractsListSelected
            THEN [placedDetails EXCEPT !.BorderStyle = "white"]
            ELSE IF m.detailsListSelected
            THEN [placedDetails EXCEPT !.BorderStyle = "green"]
            ELSE placedDetails
    IN [m EXCEPT !.contractsList = validateSelectedRow(styledContracts),
                 !.detailsList = validateSelectedRow(styledDetails),
                 !.codeParagraph = placedCode]

(***************************************************************************)
(* What the Right key shows: the rows of the details list built from the   *)
(* selected contract, the summary of the contract, and the text of one     *)
(* item of the details list.                                               *)
(***************************************************************************)
ItemRows(items) == [i \in 1..Len(items) |-> "  " \o items[i].Name]

DetailsRows(c) ==
    (IF c.Constructor # Nil
     THEN <<"[Constructor](fg:cyan)", "  - Constructor">> ELSE <<>>)
    \o <<"[Functions](fg:cyan)">> \o ItemRows(c.Functions)
    \o <<"[Mappings](fg:cyan)">> \o ItemRows(c.Mappings)
    \o <<"[Constants](fg:cyan)">> \o ItemRows(c.Constants)
    \o <<"[Variables](fg:cyan)">> \o ItemRows(c.Variables)
    \o <<"[Events](fg:cyan)">> \o ItemRows(c.Events)
    \o <<"[Structs](fg:cyan)">> \o ItemRows(c.Structs)
    \o <<"[Enums](fg:cyan)">> \o ItemRows(c.Enums)

SummaryText(c) ==
    "Contract: " \o c.Name \o "\n"
    \o "Pragma: " \o c.Pragma \o "\n"
    \o (IF Len(c.Inherits) > 0
        THEN "Inherits: " \o FmtStrings(c.Inherits) \o "\n"
        ELSE "Inherits: None\n")

\* The zero values a lookup loop leaves in place when no item has the name.
ZeroFunction ==
    [ Name |-> "", Kind |-> "", Visibility |-> "", StateMutability |-> "",
      Modifiers |-> <<>>, BaseFunctions |-> <<>>, Overrides |-> <<>>,
      Parameters |-> <<>>, ReturnParameters |-> <<>> ]

ZeroVariable ==
    [ Name |-> "", Type |-> "", Visibility |-> "", StateVariable |-> FALSE,
      StorageLocation |-> "", Constant |-> FALSE, Mutability |-> "",
      FunctionSelector |-> "", Value |-> "" ]

ZeroEvent == [Name |-> "", Parameters |-> <<>>]

ZeroStruct == [Name |-> "", Members |-> <<>>]

ZeroEnum == [Name |-> "", Values |-> <<>>]

\* for _, x := range items { if x.Name == itemName { selected = x; break } }
FirstNamed(items, itemName, zero) ==
    LET hits == {i \in 1..Len(items) : items[i].Name = itemName}
    IN IF hits = {} THEN zero
       ELSE items[CHOOSE i \in hits : \A j \in hits : i <= j]

NamedTypeLines(list) ==
    Join([i \in 1..Len(list) |->
             "  - " \o list[i].Name \o ": " \o list[i].Type \o "\n"], "")

BulletLines(list) ==
    Join([i \in 1..Len(list) |-> "  - " \o list[i] \o "\n"], "")

EventParameterLines(list) ==
    Join([i \in 1..Len(list) |->
             "  - " \o list[i].Type \o " " \o list[i].Name \o " "
             \o (IF list[i].Indexed THEN "(indexed)" ELSE "") \o "\n"], "")

ConstructorDetails(constructor) ==
    "Constructor\n"
    \o (IF Len(constructor.Parameters) > 0
        THEN "Parameters:\n" \o NamedTypeLines(constructor.Parameters) ELSE "")
    \o (IF Len(constructor.Modifiers) > 0
        THEN "Modifiers:\n" \o BulletLines(constructor.Modifiers) ELSE "")
    \o "Visibility: " \o constructor.Visibility \o "\n"
    \o "State Mutability: " \o constructor.StateMutability \o "\n"

FunctionDetails(selectedFunction) ==
    "Function: " \o selectedFunction.Name \o "\n"
    \o (IF Len(selectedFunction.Parameters) > 0
        THEN "Parameters:\n" \o NamedTypeLines(selectedFunction.Parameters) ELSE "")
    \o (IF Len(selectedFunction.ReturnParameters) > 0
        THEN "Returns:\n" \o NamedTypeLines(selectedFunction.ReturnParameters)
        ELSE "")
    \o (IF Len(selectedFunction.Modifiers) > 0
        THEN "Modifiers:\n" \o BulletLines(selectedFunction.Modifiers) ELSE "")
    \o "Visibility: " \o selectedFunction.Visibility \o "\n"
    \o "State Mutability: " \o selectedFunction.StateMutability \o "\n"

ConstantDetails(selectedConstant) ==
    "Constant: " \o selectedConstant.Name \o "\n"
    \o "Type: " \o selectedConstant.Type \o "\n"
    \o "Visibility: " \o selectedConstant.Visibility \o "\n"
    \o (IF selectedConstant.Value # ""
        THEN "Value: " \o selectedConstant.Value \o "\n" ELSE "")

VariableDetails(selectedVariable) ==
    "Variable: " \o selectedVariable.Name \o "\n"
    \o "Type: " \o selectedVariable.Type \o "\n"
    \o "Visibility: " \o selectedVariable.Visibility \o "\n"
    \o (IF selectedVariable.Constant THEN "Constant: true\n" ELSE "")
    \o (IF selectedVariable.Mutability # ""
        THEN "Mutability: " \o selectedVariable.Mutability \o "\n" ELSE "")
    \o (IF selectedVariable.Value # ""
        THEN "Value: " \o selectedVariable.Value \o "\n" ELSE "")

EventDetails(selectedEvent) ==
    "Event: " \o selectedEvent.Name \o "\n"
    \o (IF Len(selectedEvent.Parameters) > 0
        THEN "Parameters:\n" \o EventParameterLines(selectedEvent.Parameters)
        ELSE "")

StructDetails(selectedStruct) ==
    "Struct: " \o selectedStruct.Name \o "\n"
    \o (IF Len(selectedStruct.Members) > 0
        THEN "Members:\n" \o NamedTypeLines(selectedStruct.Members) ELSE "")

EnumDetails(selectedEnum) ==
    "Enum: " \o selectedEnum.Name \o "\n"
    \o (IF Len(selectedEnum.Values) > 0
        THEN "Values:\n" \o BulletLines(selectedEnum.Values) ELSE "")

MappingDetails(selectedMapping) ==
    "Mapping: " \o selectedMapping.Name \o "\n"
    \o "Type: " \o selectedMapping.Type \o "\n"
    \o "Visibility: " \o selectedMapping.Visibility \o "\n"

\* The header row at or above the row of Go index `index`, formatting removed;
\* "" when there is none.
ItemTypeAt(list, index) ==
    LET headers == {i \in 0..index : HasPrefix(Row(list, i), "[")}
    IN IF headers = {} THEN ""
       ELSE Trim(Row(list, CHOOSE i \in headers : \A j \in headers : j <= i),
                 "[]()fg:cyan")

\* The switch on itemType: the text the paragraph gets, or the text it has
\* when no case matches.
ItemText(c, itemType, itemName, text) ==
    CASE itemType = "Constructor" -> ConstructorDetails(Deref(c.Constructor))
      [] itemType = "Functions" ->
            FunctionDetails(FirstNamed(c.Functions, itemName, ZeroFunction))
      [] itemType = "Constants" ->
            ConstantDetails(FirstNamed(c.Constants, itemName, ZeroVariable))
      [] itemType = "Variables" ->
            VariableDetails(FirstNamed(c.Variables, itemName, ZeroVariable))
      [] itemType = "Events" ->
            EventDetails(FirstNamed(c.Events, itemName, ZeroEvent))
      [] itemType = "Structs" ->
            StructDetails(FirstNamed(c.Structs, itemName, ZeroStruct))
      [] itemType = "Enums" ->
            EnumDetails(FirstNamed(c.Enums, itemName, ZeroEnum))
      [] itemType = "Mappings" ->
            MappingDetails(FirstNamed(c.Mappings, itemName, ZeroVariable))
      [] OTHER -> text

(***************************************************************************)
(* One iteration of the event loop on the locals m of main. flow tells how *)
(* the iteration ends: "next" falls out of the switch to the UpdateUI call *)
(* that closes the loop body, "continue" skips that call, "return" leaves  *)
(* main, "panic" is a run-time panic (an index out of range or a nil       *)
(* pointer dereference). selectedContract holds a copy of the Contract it  *)
(* points to: main never writes through the pointer.                       *)
(***************************************************************************)
\* A slip: the quit keys are honoured only while the contracts list has the focus.
OnQuitFromContracts(m) ==
    IF m.contractsListSelected THEN [m EXCEPT !.flow = "return"] ELSE m

OnQuit(m) == [m EXCEPT !.flow = "return"]

OnResize(m, size) == UpdateUI(m, size)

OnDown(m) ==
    IF m.contractsListSelected
    THEN (IF Len(m.contractsList.Rows) > 0
          THEN [m EXCEPT !.contractsList = ScrollDown(@)] ELSE m)
    ELSE IF m.detailsListSelected
    THEN (IF Len(m.detailsList.Rows) > 0
          THEN [m EXCEPT !.detailsList = ScrollDown(@)] ELSE m)
    ELSE m

OnUp(m) ==
    IF m.contractsListSelected
    THEN (IF Len(m.contractsList.Rows) > 0
          THEN [m EXCEPT !.contractsList = ScrollUp(@)] ELSE m)
    ELSE IF m.detailsListSelected
    THEN (IF Len(m.detailsList.Rows) > 0
          THEN [m EXCEPT !.detailsList = ScrollUp(@)] ELSE m)
    ELSE m

\* A slip: the contracts list keeps the focus beside the details list.
SelectContractBothFocused(m, c, size) ==
    UpdateUI(
      [m EXCEPT !.selectedContract = Ref(c),
                !.detailsList = [@ EXCEPT !.Rows = DetailsRows(c),
                                          !.SelectedRow = 0,
                                          !.Title = "Details of " \o c.Name],
                !.codeParagraph = [@ EXCEPT !.Text = SummaryText(c)],
                !.detailsListSelected = TRUE],
      size)

\* The contract c becomes the subject of the details list and of the
\* paragraph, and the focus moves to the details list.
SelectContract(m, c, size) ==
    UpdateUI(
      [m EXCEPT !.selectedContract = Ref(c),
                !.detailsList = [@ EXCEPT !.Rows = DetailsRows(c),
                                          !.SelectedRow = 0,
                                          !.Title = "Details of " \o c.Name],
                !.codeParagraph = [@ EXCEPT !.Text = SummaryText(c)],
                !.detailsListSelected = TRUE,
                !.contractsListSelected = FALSE],
      size)

\* A slip: the selected row is read without looking at the number of rows.
ShowContractUnguarded(m, size) ==
    IF ~InRange(m.contractsList, m.contractsList.SelectedRow)
    THEN [m EXCEPT !.flow = "panic"]
    ELSE LET contractName == Row(m.contractsList, m.contractsList.SelectedRow)
         IN IF contractName \notin DOMAIN m.registry
            THEN [m EXCEPT !.flow = "panic"]
            ELSE SelectContract(m, m.registry[contractName], size)

\* Right on the contracts list: the contract of the selected row is fetched
\* from the registry by its name. A missing entry would be a nil pointer,
\* dereferenced at once.
ShowContract(m, size) ==
    IF Len(m.contractsList.Rows) = 0 THEN [m EXCEPT !.flow = "continue"]
    ELSE IF ~InRange(m.contractsList, m.contractsList.SelectedRow)
    THEN [m EXCEPT !.flow = "panic"]
    ELSE LET contractName == Row(m.contractsList, m.contractsList.SelectedRow)
         IN IF contractName \notin DOMAIN m.registry
            THEN [m EXCEPT !.flow = "panic"]
            ELSE SelectContract(m, m.registry[contractName], size)

\* Right on the details list: the selected item is described in the paragraph.
ShowItem(m, size) ==
    IF m.selectedContract = Nil \/ Len(m.detailsList.Rows) = 0
    THEN [m EXCEPT !.flow = "continue"]
    ELSE IF ~InRange(m.detailsList, m.detailsList.SelectedRow)
    THEN [m EXCEPT !.flow = "panic"]
    ELSE LET selectedRow == Row(m.detailsList, m.detailsList.SelectedRow)
             itemType == ItemTypeAt(m.detailsList, m.detailsList.SelectedRow)
             itemName == TrimSpace(selectedRow)
         IN IF HasPrefix(selectedRow, "[") THEN [m EXCEPT !.flow = "continue"]
            ELSE IF itemType = "Constructor"
                    /\ Deref(m.selectedContract).Constructor = Nil
            THEN [m EXCEPT !.flow = "panic"]
            ELSE UpdateUI(
                   [m EXCEPT !.codeParagraph =
                        [@ EXCEPT !.Text = ItemText(Deref(m.selectedContract),
                                                    itemType, itemName, @)]],
                   size)

OnRight(m, size) ==
    IF m.contractsListSelected THEN ShowContract(m, size)
    ELSE IF m.detailsListSelected THEN ShowItem(m, size)
    ELSE m

\* A slip: going back also takes the contract that was shown out of the registry.
OnLeftDeleting(m, size) ==
    IF m.detailsListSelected
    THEN UpdateUI(
           [m EXCEPT !.registry =
                        [n \in DOMAIN m.registry \ {Deref(m.selectedContract).Name}
                            |-> m.registry[n]],
                     !.detailsListSelected = FALSE,
                     !.contractsListSelected = TRUE,
                     !.selectedContract = Nil,
                     !.detailsList = [@ EXCEPT !.Rows = <<>>,
                                               !.Title = "Details",
                                               !.SelectedRow = 0],
                     !.codeParagraph = [@ EXCEPT !.Text = ""]],
           size)
    ELSE m

\* A slip: going back leaves the title of the details list and the text.
OnLeftKeepsText(m, size) ==
    IF m.detailsListSelected
    THEN UpdateUI(
           [m EXCEPT !.detailsListSelected = FALSE,
                     !.contractsListSelected = TRUE,
                     !.selectedContract = Nil,
                     !.detailsList = [@ EXCEPT !.Rows = <<>>,
                                               !.SelectedRow = 0]],
           size)
    ELSE m

OnLeft(m, size) ==
    IF m.detailsListSelected
    THEN UpdateUI(
           [m EXCEPT !.detailsListSelected = FALSE,
                     !.contractsListSelected = TRUE,
                     !.selectedContract = Nil,
                     !.detailsList = [@ EXCEPT !.Rows = <<>>,
                                               !.Title = "Details",
                                               !.SelectedRow = 0],
                     !.codeParagraph = [@ EXCEPT !.Text = ""]],
           size)
    ELSE m

QuitKeys == {"q", "<C-c>"}

\* The switch on e.ID, then the UpdateUI call that closes the loop body.
Handle(m, e, size) ==
    LET s == CASE e \in QuitKeys -> OnQuit(m)
               [] e = "<Resize>" -> OnResize(m, size)
               [] e = "<Down>" -> OnDown(m)
               [] e = "<Up>" -> OnUp(m)
               [] e = "<Right>" -> OnRight(m, size)
               [] e = "<Left>" -> OnLeft(m, size)
               [] OTHER -> m
    IN IF s.flow = "next" THEN UpdateUI(s, size) ELSE s

\* Where the event loop stands after an iteration that ended with flow.
After(flow) ==
    CASE flow = "return" -> "exited"
      [] flow = "panic" -> "panic"
      [] OTHER -> "polling"

(***************************************************************************)
(* Inputs of the browser: the registry ParseAllContracts returned, the     *)
(* order in which Go ranges over it, the size of the terminal and the      *)
(* events the terminal delivers. main reads Contract.Constants, a list the *)
(* Contract of the parser above does not declare; the contracts of the     *)
(* registry carry it as an input.                                          *)
(***************************************************************************)
MaxContracts == 2

\* The Contract ParseContractFile returns for a readable, well-formed file
\* data/<name>.json whose document has the contract name and the nodes given
\* (at least one node: a document without nodes is an error and leaves main
\* without a registry).
ParsedDocument(name, nodes) ==
    Deref(ParseContractFile(
            [path |-> JsonPath("data/" \o name), readable |-> TRUE,
             wellFormed |-> TRUE,
             abiFile |-> [ContractName |-> name, AST |-> [Nodes |-> nodes]]]).contract)

WithConstants(c, constants) ==
    [f \in DOMAIN c \cup {"Constants"} |->
        IF f = "Constants" THEN constants ELSE c[f]]

TokenContract ==
    WithConstants(
        ParsedDocument("Token",
            <<PragmaSolidity,
              ContractDefinition("Token", <<"Ownable", "ERC20">>,
                  <<ConstructorOwner, FunctionTransfer, VarElementary, VarMapping,
                    EventTransfer, StructAccount, EnumState>>)>>),
        <<ExtractVariable(VarElementary)>>)

\* Two functions of one name: the lookup by name finds the first.
VaultContract ==
    WithConstants(
        ParsedDocument("Vault",
            <<ContractDefinition("Vault", <<>>,
                  <<FunctionFlagged,
                    [FunctionFlagged EXCEPT !.Visibility = "external"]>>)>>),
        <<>>)

\* A contract definition without base contracts and without members.
EmptyContract ==
    WithConstants(
        ParsedDocument("Ownable", <<ContractDefinition("Ownable", <<>>, <<>>)>>),
        <<>>)

ContractPool == {TokenContract, VaultContract, EmptyContract}

RECURSIVE RegistryOf(_)
RegistryOf(S) ==
    IF S = {} THEN <<>>
    ELSE LET c == CHOOSE x \in S : TRUE IN Insert(RegistryOf(S \ {c}), c)

Registries ==
    {RegistryOf(S) : S \in {T \in SUBSET ContractPool : Cardinality(T) <= MaxContracts}}

\* for name := range contracts: every order of the keys
Orders(S) ==
    {f \in [1..Cardinality(S) -> S] : \A i, j \in DOMAIN f : f[i] = f[j] => i = j}

TerminalSizes == {<<80, 24>>, <<121, 40>>}

Keys == QuitKeys \cup {"<Resize>", "<Down>", "<Up>", "<Right>", "<Left>", "<Enter>"}

Locals ==
    [ registry |-> registry, contractsList |-> contractsList,
      detailsList |-> detailsList, codeParagraph |-> codeParagraph,
      selectedContract |-> selectedContract,
      contractsListSelected |-> contractsListSelected,
      detailsListSelected |-> detailsListSelected, flow |-> "next" ]

\* main up to its first call of UpdateUI.
Setup(loaded, contractNames, size) ==
    UpdateUI(
      [ registry |-> loaded,
        contractsList |-> [NewList EXCEPT !.Title = "Contracts",
                                          !.Rows = contractNames,
                                          !.SelectedRow = 0],
        detailsList |-> [NewList EXCEPT !.Title = "Details"],
        codeParagraph |-> [NewParagraph EXCEPT !.Title = "Code"],
        selectedContract |-> Nil,
        contractsListSelected |-> TRUE,
        detailsListSelected |-> FALSE, flow |-> "next" ],
      size)

InitUI ==
    /\ ValueIdle /\ TypeIdle /\ ParseIdle /\ WalkIdle
    /\ registry \in Registries
    /\ \E contractNames \in Orders(DOMAIN registry), size \in TerminalSizes :
         LET m == Setup(registry, contractNames, size)
         IN /\ contractsList = m.contractsList
            /\ detailsList = m.detailsList
            /\ codeParagraph = m.codeParagraph
            /\ selectedContract = m.selectedContract
            /\ contractsListSelected = m.contractsListSelected
            /\ detailsListSelected = m.detailsListSelected
    /\ event = "" /\ upc = "polling"

\* e := <-uiEvents
Poll ==
    /\ upc = "polling"
    /\ event' \in Keys
    /\ upc' = "handling"
    /\ UNCHANGED <<registry, contractsList, detailsList, codeParagraph,
                   selectedContract, contractsListSelected, detailsListSelected,
                   valueVars, typeVars, parseVars, walkVars>>

KeyQuit ==
    /\ upc = "handling" /\ event \in QuitKeys
    /\ \E size \in TerminalSizes :
         LET s == Handle(Locals, event, size)
         IN /\ registry' = s.registry
            /\ contractsList' = s.contractsList
            /\ detailsList' = s.detailsList
            /\ codeParagraph' = s.codeParagraph
            /\ selectedContract' = s.selectedContract
            /\ contractsListSelected' = s.contractsListSelected
            /\ detailsListSelected' = s.detailsListSelected
            /\ upc' = After(s.flow)
    /\ UNCHANGED <<event, valueVars, typeVars, parseVars, walkVars>>

KeyResize ==
    /\ upc = "handling" /\ event = "<Resize>"
    /\ \E size \in TerminalSizes :
         LET s == Handle(Locals, event, size)
         IN /\ registry' = s.registry
            /\ contractsList' = s.contractsList
            /\ detailsList' = s.detailsList
            /\ codeParagraph' = s.codeParagraph
            /\ selectedContract' = s.selectedContract
            /\ contractsListSelected' = s.contractsListSelected
            /\ detailsListSelected' = s.detailsListSelected
            /\ upc' = After(s.flow)
    /\ UNCHANGED <<event, valueVars, typeVars, parseVars, walkVars>>

KeyDown ==
    /\ upc = "handling" /\ event = "<Down>"
    /\ \E size \in TerminalSizes :
         LET s == Handle(Locals, event, size)
         IN /\ registry' = s.registry
            /\ contractsList' = s.contractsList
            /\ detailsList' = s.detailsList
            /\ codeParagraph' = s.codeParagraph
            /\ selectedContract' = s.selectedContract
            /\ contractsListSelected' = s.contractsListSelected
            /\ detailsListSelected' = s.detailsListSelected
            /\ upc' = After(s.flow)
    /\ UNCHANGED <<event, valueVars, typeVars, parseVars, walkVars>>

KeyUp ==
    /\ upc = "handling" /\ event = "<Up>"
    /\ \E size \in TerminalSizes :
         LET s == Handle(Locals, event, size)
         IN /\ registry' = s.registry
            /\ contractsList' = s.contractsList
            /\ detailsList' = s.detailsList
            /\ codeParagraph' = s.codeParagraph
            /\ selectedContract' = s.selectedContract
            /\ contractsListSelected' = s.contractsListSelected
            /\ detailsListSelected' = s.detailsListSelected
            /\ upc' = After(s.flow)
    /\ UNCHANGED <<event, valueVars, typeVars, parseVars, walkVars>>

KeyRight ==
    /\ upc = "handling" /\ event = "<Right>"
    /\ \E size \in TerminalSizes :
         LET s == Handle(Locals, event, size)
         IN /\ registry' = s.registry
            /\ contractsList' = s.contractsList
            /\ detailsList' = s.detailsList
            /\ codeParagraph' = s.codeParagraph
            /\ selectedContract' = s.selectedContract
            /\ contractsListSelected' = s.contractsListSelected
            /\ detailsListSelected' = s.detailsListSelected
            /\ upc' = After(s.flow)
    /\ UNCHANGED <<event, valueVars, typeVars, parseVars, walkVars>>

KeyLeft ==
    /\ upc = "handling" /\ event = "<Left>"
    /\ \E size \in TerminalSizes :
         LET s == Handle(Locals, event, size)
         IN /\ registry' = s.registry
            /\ contractsList' = s.contractsList
            /\ detailsList' = s.detailsList
            /\ codeParagraph' = s.codeParagraph
            /\ selectedContract' = s.selectedContract
            /\ contractsListSelected' = s.contractsListSelected
            /\ detailsListSelected' = s.detailsListSelected
            /\ upc' = After(s.flow)
    /\ UNCHANGED <<event, valueVars, typeVars, parseVars, walkVars>>

KeyOther ==
    /\ upc = "handling" /\ event \notin QuitKeys \cup {"<Resize>", "<Down>", "<Up>", "<Right>", "<Left>"}
    /\ \E size \in TerminalSizes :
         LET s == Handle(Locals, event, size)
         IN /\ registry' = s.registry
            /\ contractsList' = s.contractsList
            /\ detailsList' = s.detailsList
            /\ codeParagraph' = s.codeParagraph
            /\ selectedContract' = s.selectedContract
            /\ contractsListSelected' = s.contractsListSelected
            /\ detailsListSelected' = s.detailsListSelected
            /\ upc' = After(s.flow)
    /\ UNCHANGED <<event, valueVars, typeVars, parseVars, walkVars>>

NextUI ==
    \/ Poll \/ KeyQuit \/ KeyResize \/ KeyDown \/ KeyUp
    \/ KeyRight \/ KeyLeft \/ KeyOther

SpecUI == InitUI /\ [][NextUI]_vars

\* A quit key that has been received is handled: the loop body does not block.
SpecUILive == InitUI /\ [][NextUI]_vars /\ WF_vars(KeyQuit)

(***************************************************************************)
(* Properties.                                                             *)
(*                                                                         *)
(* What a run of ParseContractFile has processed so far, read from its     *)
(* position: the contract definitions entered and their members handled.   *)
(***************************************************************************)
RECURSIVE Flatten(_)
Flatten(seqs) == IF seqs = <<>> THEN <<>> ELSE Head(seqs) \o Flatten(Tail(seqs))

IsDefinition(node) == node.NodeType = "ContractDefinition"

\* The contract definitions among the nodes already left behind.
FinishedDefinitions ==
    SelectSeq(SubSeq(Nodes, 1, IF xpc = "returned" THEN Len(Nodes) ELSE nodeIdx - 1),
              IsDefinition)

EnteredDefinitions ==
    FinishedDefinitions \o (IF xpc = "members" THEN <<CurNode>> ELSE <<>>)

ProcessedMembers ==
    Flatten([i \in 1..Len(FinishedDefinitions) |-> FinishedDefinitions[i].Nodes])
    \o (IF xpc = "members" THEN SubSeq(CurNode.Nodes, 1, memberIdx - 1) ELSE <<>>)

ReturnedContract == xpc = "returned" /\ parsed.err = Nil /\ parsed.contract # Nil

IsConstructorNode(m) == m.NodeType = "FunctionDefinition" /\ m.Kind = "constructor"

IsFunctionNode(m) == m.NodeType = "FunctionDefinition" /\ m.Kind # "constructor"

HasMappingType(m) == m.TypeName # Nil /\ Deref(m.TypeName).NodeType = "Mapping"

IsMappingNode(m) == m.NodeType = "VariableDeclaration" /\ HasMappingType(m)

IsVariableNode(m) == m.NodeType = "VariableDeclaration" /\ ~HasMappingType(m)

OfKind(members, kind) == SelectSeq(members, LAMBDA m : m.NodeType = kind)

(***************************************************************************)
(* The stepped run returns what ParseContractFile, taken as one function,  *)
(* returns for the same file.                                              *)
(***************************************************************************)
StepsAgreeWithParseContractFile ==
    xpc = "returned" => parsed = ParseContractFile(file)

(***************************************************************************)
(* C1: loading a document with no top-level node returns the "no AST"      *)
(* error and a nil Contract, whatever its contract-name field, and no      *)
(* extraction step runs: no Contract is allocated and the node loop is     *)
(* never entered.                                                          *)
(***************************************************************************)
EmptyDocument == file.readable /\ file.wellFormed /\ Len(Nodes) = 0

C1_NoAstIsAnError ==
    EmptyDocument =>
        /\ xpc \in {"call", "returned"}
        /\ contract = Nil /\ nodeIdx = 0
        /\ xpc = "returned" =>
              /\ parsed.contract = Nil
              /\ parsed.err = Ref("no AST found in file " \o PathString(file.path))

C1_Witness ==
    /\ EmptyDocument /\ xpc = "returned"
    /\ file.abiFile.ContractName = "Wallet"
    /\ parsed.err # Nil

(***************************************************************************)
(* C2 as stated: only the first contract definition of a document          *)
(* contributes; the Inherits list, Variables, Mappings, Functions,         *)
(* Constructor, Events, Modifiers, Structs and Enums of the result are     *)
(* those of the document with every later contract definition removed.     *)
(***************************************************************************)
RECURSIVE DropDefinitions(_)
DropDefinitions(nodes) ==
    IF nodes = <<>> THEN <<>>
    ELSE IF IsDefinition(Head(nodes)) THEN DropDefinitions(Tail(nodes))
    ELSE <<Head(nodes)>> \o DropDefinitions(Tail(nodes))

RECURSIVE KeepFirstDefinition(_)
KeepFirstDefinition(nodes) ==
    IF nodes = <<>> THEN <<>>
    ELSE IF IsDefinition(Head(nodes)) THEN <<Head(nodes)>> \o DropDefinitions(Tail(nodes))
    ELSE <<Head(nodes)>> \o KeepFirstDefinition(Tail(nodes))

MemberFields ==
    { "Inherits", "Variables", "Mappings", "Functions", "Constructor", "Events",
      "Modifiers", "Structs", "Enums" }

C2_OnlyFirstDefinition ==
    ReturnedContract =>
        LET first == ExtractNodes(KeepFirstDefinition(Nodes), NewContract(file.abiFile))
        IN \A f \in MemberFields : Deref(parsed.contract)[f] = first[f]

(***************************************************************************)
(* C2 amended: every contract definition of a document contributes. At     *)
(* every point of the extraction the Inherits list is the concatenation,   *)
(* in node order, of the base names of the contract definitions entered,   *)
(* and Variables, Mappings, Functions, Events, Modifiers, Structs and      *)
(* Enums hold the members of those definitions handled so far, of the      *)
(* matching kind and in node order; Constructor is the last constructor    *)
(* among them.                                                             *)
(***************************************************************************)
BaseNames(node) == [i \in 1..Len(node.BaseContracts) |-> node.BaseContracts[i].BaseName.Name]

C2_EveryDefinitionContributes ==
    contract # Nil =>
        LET c == Deref(contract)
            ms == ProcessedMembers
            ctors == SelectSeq(ms, IsConstructorNode)
            vs == SelectSeq(ms, IsVariableNode)
            mps == SelectSeq(ms, IsMappingNode)
            fs == SelectSeq(ms, IsFunctionNode)
            es == OfKind(ms, "EventDefinition")
            mds == OfKind(ms, "ModifierDefinition")
            ss == OfKind(ms, "StructDefinition")
            ens == OfKind(ms, "EnumDefinition")
        IN /\ c.Inherits =
                 Flatten([i \in 1..Len(EnteredDefinitions) |->
                             BaseNames(EnteredDefinitions[i])])
           /\ c.Variables = [i \in 1..Len(vs) |-> ExtractVariable(vs[i])]
           /\ c.Mappings = [i \in 1..Len(mps) |-> ExtractVariable(mps[i])]
           /\ c.Functions = [i \in 1..Len(fs) |-> ExtractFunction(fs[i])]
           /\ c.Events = [i \in 1..Len(es) |-> ExtractEvent(es[i])]
           /\ c.Modifiers = [i \in 1..Len(mds) |-> ExtractModifier(mds[i])]
           /\ c.Structs = [i \in 1..Len(ss) |-> ExtractStruct(ss[i])]
           /\ c.Enums = [i \in 1..Len(ens) |-> ExtractEnum(ens[i])]
           /\ c.Constructor = IF ctors = <<>> THEN Nil
                              ELSE Ref(ExtractFunction(ctors[Len(ctors)]))

\* Two contract definitions, and the second has added to what the first left.
C2_Witness ==
    /\ ReturnedContract
    /\ Len(FinishedDefinitions) = 2
    /\ Len(FinishedDefinitions[2].Nodes) > 0
    /\ Len(Deref(parsed.contract).Inherits) > Len(FinishedDefinitions[1].BaseContracts)
    /\ Len(Deref(parsed.contract).Functions) = 1
    /\ Len(Deref(parsed.contract).Events) = 1

(***************************************************************************)
(* C3 as stated: after extraction of a document with at least one contract *)
(* definition, Contract.Name is the name of the first contract definition  *)
(* of the node list.                                                       *)
(***************************************************************************)
C3_NameOfFirstDefinition ==
    (ReturnedContract /\ FinishedDefinitions # <<>>) =>
        Deref(parsed.contract).Name = FinishedDefinitions[1].Name

(***************************************************************************)
(* C3 amended: Contract.Name is the document's contract-name field when    *)
(* that field is non-empty; otherwise it is the name of the first contract *)
(* definition entered whose name is non-empty, and empty while there is    *)
(* none. It holds at every point of the extraction, so no later contract   *)
(* definition changes a name once set.                                     *)
(***************************************************************************)
RECURSIVE FirstNonEmpty(_)
FirstNonEmpty(names) ==
    IF names = <<>> THEN ""
    ELSE IF Head(names) # "" THEN Head(names)
    ELSE FirstNonEmpty(Tail(names))

C3_NameFieldThenFirstNamedDefinition ==
    contract # Nil =>
        Deref(contract).Name =
            IF file.abiFile.ContractName # "" THEN file.abiFile.ContractName
            ELSE FirstNonEmpty([i \in 1..Len(EnteredDefinitions) |->
                                   EnteredDefinitions[i].Name])

C3_Witness ==
    /\ ReturnedContract
    /\ file.abiFile.ContractName = ""
    /\ Len(FinishedDefinitions) = 2
    /\ FinishedDefinitions[1].Name = "Base"
    /\ FinishedDefinitions[2].Name = "Token"
    /\ Deref(parsed.contract).Name = "Base"

(***************************************************************************)
(* The JSON expression nodes the value claims are about: a map that        *)
(* decodes to an ASTNode of the given kind.                                *)
(***************************************************************************)
IsExpression(v, kind) ==
    /\ v.t = "map"
    /\ UnmarshalOK(v.v)
    /\ "nodeType" \in DOMAIN v.v
    /\ v.v.nodeType = JStr(kind)

HasNode(v, key) == key \in DOMAIN v.v /\ v.v[key].t = "map"

(***************************************************************************)
(* C4: the rendering of a unary-operation node is its operator token       *)
(* followed by the rendering of its operand ("-" over the literal 1 is     *)
(* "-1").                                                                  *)
(***************************************************************************)
C4_UnaryRendersOperand ==
    (vpc = "done" /\ IsExpression(value, "UnaryOperation")
                  /\ "operator" \in DOMAIN value.v
                  /\ HasNode(value, "subExpression")) =>
        rendered = value.v.operator.v \o extractValue(value.v.subExpression)

(***************************************************************************)
(* C5: the rendering of a binary-operation node is "(L op R)" with L and R *)
(* the renderings of its left and right sub-expressions ("a" plus the      *)
(* literal 1 is "(a + 1)").                                                *)
(***************************************************************************)
C5_BinaryRendersBothSides ==
    (vpc = "done" /\ IsExpression(value, "BinaryOperation")
                  /\ "operator" \in DOMAIN value.v
                  /\ HasNode(value, "leftExpression")
                  /\ HasNode(value, "rightExpression")) =>
        rendered = "(" \o extractValue(value.v.leftExpression) \o " "
                       \o value.v.operator.v \o " "
                       \o extractValue(value.v.rightExpression) \o ")"

(***************************************************************************)
(* C6: the rendering of a function-call node is callee(arg1, arg2, ...):   *)
(* the callee is the identifier's name when the call target is an          *)
(* identifier and the rendering of the call-target expression otherwise;   *)
(* the arguments are rendered each and joined with ", " in declared order. *)
(***************************************************************************)
C6_CallRendersCalleeAndArguments ==
    (vpc = "done" /\ IsExpression(value, "FunctionCall")
                  /\ HasNode(value, "expression")
                  /\ "arguments" \in DOMAIN value.v
                  /\ value.v.arguments.t = "slice") =>
        LET target == value.v.expression
            callee == IF IsExpression(target, "Identifier") /\ "name" \in DOMAIN target.v
                      THEN target.v.name.v
                      ELSE extractValue(target)
            args == value.v.arguments.v
        IN rendered = callee \o "("
                        \o Join([i \in 1..Len(args) |-> extractValue(args[i])], ", ")
                        \o ")"

(***************************************************************************)
(* C7: each variable declaration handled by the member loop is appended to *)
(* exactly one of Mappings and Variables: to Mappings when it has a type   *)
(* subtree of kind Mapping, to Variables otherwise (a missing type subtree *)
(* included); the other list is left as it was.                            *)
(***************************************************************************)
AppendedTo(list, list2, node) ==
    /\ Len(list2) = Len(list) + 1
    /\ SubSeq(list2, 1, Len(list)) = list
    /\ list2[Len(list2)].Name = node.Name
    /\ list2[Len(list2)].Type = extractTypeName(node.TypeName)

HandlesVariable ==
    /\ xpc = "members" /\ memberIdx <= Len(CurNode.Nodes)
    /\ CurMember.NodeType = "VariableDeclaration"
    /\ memberIdx' = memberIdx + 1

C7_ExactlyOneOfMappingsAndVariables ==
    [][HandlesVariable =>
         LET c == Deref(contract)
             d == Deref(contract')
         IN IF HasMappingType(CurMember)
            THEN AppendedTo(c.Mappings, d.Mappings, CurMember) /\ d.Variables = c.Variables
            ELSE AppendedTo(c.Variables, d.Variables, CurMember) /\ d.Mappings = c.Mappings
      ]_vars

\* A mapping, then a declaration without a type subtree, both handled.
C7_Witness ==
    /\ ReturnedContract
    /\ Len(ProcessedMembers) = 2
    /\ IsMappingNode(ProcessedMembers[1])
    /\ IsVariableNode(ProcessedMembers[2]) /\ ProcessedMembers[2].TypeName = Nil
    /\ Len(Deref(parsed.contract).Mappings) = 1
    /\ Len(Deref(parsed.contract).Variables) = 1

(***************************************************************************)
(* C8: no element of Contract.Functions has Kind "constructor"; a function *)
(* definition of kind constructor is stored in the Constructor slot, which *)
(* holds the last one handled.                                             *)
(***************************************************************************)
C8_ConstructorNeverInFunctions ==
    contract # Nil =>
        LET c == Deref(contract)
            ctors == SelectSeq(ProcessedMembers, IsConstructorNode)
        IN /\ \A i \in 1..Len(c.Functions) : c.Functions[i].Kind # "constructor"
           /\ Len(c.Functions) =
                 Len(OfKind(ProcessedMembers, "FunctionDefinition")) - Len(ctors)
           /\ ctors = <<>> => c.Constructor = Nil
           /\ ctors # <<>> =>
                 /\ c.Constructor # Nil
                 /\ Deref(c.Constructor).Kind = "constructor"
                 /\ Deref(c.Constructor).Parameters =
                        ExtractParameterList(ctors[Len(ctors)].Parameters)
                 /\ Deref(c.Constructor).StateMutability =
                        ctors[Len(ctors)].StateMutability

\* Two different constructors and a function: the slot holds the second.
C8_Witness ==
    /\ ReturnedContract
    /\ Len(SelectSeq(ProcessedMembers, IsConstructorNode)) = 2
    /\ SelectSeq(ProcessedMembers, IsConstructorNode)[1] = ConstructorOwner
    /\ SelectSeq(ProcessedMembers, IsConstructorNode)[2] = ConstructorPlain
    /\ Len(Deref(parsed.contract).Functions) = 1
    /\ Deref(Deref(parsed.contract).Constructor).StateMutability = "payable"

(***************************************************************************)
(* What the walk of ParseAllContracts meets: the .json files, and whether  *)
(* loading one fails (unreadable, malformed JSON, no top-level node).      *)
(***************************************************************************)
IsJson(e) == ~e.accessErr /\ ~e.isDir /\ e.path.ext = ".json"

LoadFails(e) ==
    IsJson(e) /\ (~e.readable \/ ~e.wellFormed \/ Len(e.abiFile.AST.Nodes) = 0)

LoadError(e) ==
    IF ~e.readable THEN "open " \o PathString(e.path) \o ": permission denied"
    ELSE IF ~e.wellFormed
    THEN "failed to parse contract file " \o PathString(e.path)
             \o ": unexpected end of JSON input"
    ELSE "no AST found in file " \o PathString(e.path)

Loaded(e) == Deref(ParseContractFile(e).contract)

\* The entries at which the walk function returns an error.
Stops == {i \in 1..Len(walk) : walk[i].accessErr \/ LoadFails(walk[i])}

FirstStop == CHOOSE i \in Stops : \A j \in Stops : i <= j

(***************************************************************************)
(* C9: ParseAllContracts is all-or-nothing. When loading a .json file of   *)
(* the folder fails, the call returns a nil map and that file's error      *)
(* (under the "error parsing file" prefix with the path), whatever was     *)
(* loaded before it; the walk never goes past a failing file, so no file   *)
(* after it is loaded.                                                     *)
(***************************************************************************)
C9_AllOrNothing ==
    wpc # "idle" =>
        /\ \A i \in 1..Len(walk) : i < walkIdx => ~LoadFails(walk[i])
        /\ (wpc = "returned" /\ Stops # {} /\ LoadFails(walk[FirstStop])) =>
              /\ returned.contracts = Nil
              /\ returned.err = Ref("error parsing file "
                                      \o PathString(walk[FirstStop].path) \o ": "
                                      \o LoadError(walk[FirstStop]))
              /\ walkIdx = FirstStop

\* A file loaded and inserted, then a failing file, then a file never reached.
C9_Witness ==
    /\ wpc = "returned"
    /\ Len(walk) = 3
    /\ IsJson(walk[1]) /\ ~LoadFails(walk[1])
    /\ DOMAIN contracts = {"Token"}
    /\ LoadFails(walk[2])
    /\ IsJson(walk[3]) /\ ~LoadFails(walk[3])
    /\ returned.contracts = Nil /\ returned.err # Nil

(***************************************************************************)
(* C10: when two documents of the walk yield the same contract name, the   *)
(* returned map holds under that name the Contract of the one processed    *)
(* later, whole, with nothing kept from the earlier one.                   *)
(***************************************************************************)
Named(i) == IsJson(walk[i]) /\ ~LoadFails(walk[i]) /\ Loaded(walk[i]).Name # ""

C10_LaterDocumentWins ==
    (wpc = "returned" /\ returned.err = Nil) =>
        /\ returned.contracts # Nil
        /\ \A i \in 1..Len(walk) :
              Named(i) =>
                 LET name == Loaded(walk[i]).Name
                     last == CHOOSE j \in i..Len(walk) :
                                /\ Named(j) /\ Loaded(walk[j]).Name = name
                                /\ \A k \in (j + 1)..Len(walk) :
                                      ~(Named(k) /\ Loaded(walk[k]).Name = name)
                 IN /\ name \in DOMAIN Deref(returned.contracts)
                    /\ Deref(returned.contracts)[name] = Loaded(walk[last])

\* Two documents named Token with different contents: the second is kept.
C10_Witness ==
    /\ wpc = "returned" /\ returned.err = Nil
    /\ Len(walk) >= 2
    /\ Named(1) /\ Named(2)
    /\ Loaded(walk[1]).Name = "Token" /\ Loaded(walk[2]).Name = "Token"
    /\ Loaded(walk[1]) # Loaded(walk[2])
    /\ Len(walk) = 2
    /\ DOMAIN Deref(returned.contracts) = {"Token"}
    /\ Deref(returned.contracts)["Token"] = Loaded(walk[2])

(***************************************************************************)
(* C11: a Contract loaded with an empty Name is not inserted and is not an *)
(* error. The map under construction and the map returned never have an   *)
(* entry under the empty key, every key is the Name of its Contract, the   *)
(* keys are exactly the names of the documents loaded with a name, and a   *)
(* walk in which nothing fails returns no error.                           *)
(***************************************************************************)
Nameless(i) == IsJson(walk[i]) /\ ~LoadFails(walk[i]) /\ Loaded(walk[i]).Name = ""

KeyedByName(m) == "" \notin DOMAIN m /\ \A k \in DOMAIN m : m[k].Name = k

C11_NamelessContractIsDropped ==
    wpc # "idle" =>
        /\ KeyedByName(contracts)
        /\ DOMAIN contracts =
              {Loaded(walk[i]).Name : i \in {j \in 1..(walkIdx - 1) : Named(j)}}
        /\ wpc = "returned" =>
              /\ returned.contracts # Nil => KeyedByName(Deref(returned.contracts))
              /\ Stops = {} => (returned.err = Nil /\ returned.contracts = Ref(contracts))

\* A named document, then a nameless one, then a named one: two entries, no error.
C11_Witness ==
    /\ wpc = "returned" /\ returned.err = Nil
    /\ Len(walk) = 3
    /\ Named(1) /\ Nameless(2) /\ Named(3)
    /\ DOMAIN Deref(returned.contracts) = {"Token", "Vault"}

(***************************************************************************)
(* C12: the rendering of a literal node is its plain value (a string as it *)
(* stands, a number in decimal, a boolean as true or false) when the node  *)
(* has one, and its hex-encoded value when it has none (the value key      *)
(* missing or null); it is empty when the node has neither.                *)
(***************************************************************************)
HasPlainValue(v) ==
    "value" \in DOMAIN v.v /\ v.v.value.t \in {"string", "float64", "bool"}

PlainValue(v) ==
    LET x == v.v.value IN
    CASE x.t = "string" -> x.v
      [] x.t = "float64" -> ToString(x.v)
      [] x.t = "bool" -> (IF x.v THEN "true" ELSE "false")

HexValue(v) == IF "hexValue" \in DOMAIN v.v THEN v.v.hexValue.v ELSE ""

NoValue(v) == "value" \notin DOMAIN v.v \/ v.v.value.t = "nil"

C12_LiteralValueThenHex ==
    (vpc = "done" /\ IsExpression(value, "Literal")) =>
        /\ HasPlainValue(value) => rendered = PlainValue(value)
        /\ NoValue(value) => rendered = HexValue(value)

\* A literal whose value is null: the hex form is what is rendered.
C12_Witness ==
    /\ vpc = "done" /\ IsExpression(value, "Literal")
    /\ "value" \in DOMAIN value.v /\ NoValue(value)
    /\ rendered = "c0de"

(***************************************************************************)
(* C13: the value reconstructor is total. Every input (null, a raw scalar, *)
(* an array, an expression node of a supported kind with or without its    *)
(* sub-expressions, a node of another kind, a map that does not decode to  *)
(* a node) has a rendering, which is a string; it is the empty string for  *)
(* null and for a node whose kind is not one of the five supported kinds.  *)
(***************************************************************************)
SupportedKinds ==
    {"Literal", "FunctionCall", "Identifier", "UnaryOperation", "BinaryOperation"}

UnsupportedNode(v) ==
    /\ v.t = "map"
    /\ UnmarshalOK(v.v)
    /\ \A kind \in SupportedKinds : ~IsExpression(v, kind)

C13_RenderValueIsTotal ==
    /\ vpc = "call" => extractValue(value) \in STRING
    /\ vpc = "done" =>
          /\ rendered \in STRING
          /\ value.t = "nil" => rendered = ""
          /\ UnsupportedNode(value) => rendered = ""

\* A node of an unsupported kind that carries a name and a value.
C13_Witness ==
    /\ vpc = "done"
    /\ UnsupportedNode(value)
    /\ "nodeType" \in DOMAIN value.v /\ value.v.nodeType = JStr("Conditional")
    /\ "value" \in DOMAIN value.v
    /\ rendered = ""

(***************************************************************************)
(* The type nodes the type claims are about.                               *)
(***************************************************************************)
IsType(t, kind) == t # Nil /\ Deref(t).NodeType = kind

(***************************************************************************)
(* C14: the rendering of an array type is the rendering of its base type   *)
(* followed by "[]" when it has no length and by "[N]" when it has the     *)
(* fixed length N, N being the value of the length literal (uint256 with   *)
(* the length literal 3 is "uint256[3]").                                  *)
(***************************************************************************)
LengthText(length) ==
    IF length.t = "map" THEN extractValue(length) ELSE ToString(length.v)

C14_ArrayRendersLength ==
    (tpc = "done" /\ IsType(typeName, "ArrayTypeName")) =>
        LET tn == Deref(typeName) IN
        typeRendered =
            extractTypeName(tn.BaseType)
               \o (IF tn.Length = JNil THEN "[]"
                   ELSE "[" \o LengthText(tn.Length) \o "]")

(***************************************************************************)
(* C15: the rendering of a mapping type is "mapping(K => V)" with K and V  *)
(* the renderings of its key and value subtrees, at every nesting depth: a *)
(* mapping whose value is a mapping is "mapping(K1 => mapping(K2 => V))".  *)
(***************************************************************************)
C15_MappingRendersKeyAndValue ==
    (tpc = "done" /\ IsType(typeName, "Mapping")) =>
        LET tn == Deref(typeName) IN
        /\ typeRendered = "mapping(" \o extractTypeName(tn.KeyType) \o " => "
                                     \o extractTypeName(tn.ValueType) \o ")"
        /\ IsType(tn.ValueType, "Mapping") =>
              LET inner == Deref(tn.ValueType) IN
              typeRendered =
                 "mapping(" \o extractTypeName(tn.KeyType) \o " => mapping("
                            \o extractTypeName(inner.KeyType) \o " => "
                            \o extractTypeName(inner.ValueType) \o "))"

\* mapping(address => mapping(address => uint256))
C15_Witness ==
    /\ tpc = "done"
    /\ typeName = MappingType(Elementary("address"),
                              MappingType(Elementary("address"), Elementary("uint256")))
    /\ typeRendered = "mapping(address => mapping(address => uint256))"

(***************************************************************************)
(* C16: the rendering of a user-defined type is the first non-empty of the *)
(* type string of its type description, its declared name and the name of  *)
(* its path node, in this order, and is empty when none is set.            *)
(***************************************************************************)
TypeStringOf(tn) ==
    IF tn.TypeDescriptions = Nil THEN "" ELSE Deref(tn.TypeDescriptions).TypeString

PathNameOf(tn) == IF tn.PathNode = Nil THEN "" ELSE Deref(tn.PathNode).Name

C16_UserDefinedPrefersTypeString ==
    (tpc = "done" /\ IsType(typeName, "UserDefinedTypeName")) =>
        LET tn == Deref(typeName) IN
        typeRendered = FirstNonEmpty(<<TypeStringOf(tn), tn.Name, PathNameOf(tn)>>)

\* A type description and a declared name, both set: the type string is rendered.
C16_Witness ==
    /\ tpc = "done" /\ IsType(typeName, "UserDefinedTypeName")
    /\ TypeStringOf(Deref(typeName)) = "contract IERC20"
    /\ Deref(typeName).Name = "IERC20"
    /\ PathNameOf(Deref(typeName)) = "lib.IERC20"
    /\ typeRendered = "contract IERC20"

(***************************************************************************)
(* C17: the type renderer is total. Every type subtree has a rendering,    *)
(* which is a string; it is empty for a null type reference and for a type *)
(* node whose kind is not elementary, user-defined, mapping or array; a    *)
(* null key, value or base subtree renders as the empty string inside the  *)
(* rendering of its parent.                                                *)
(***************************************************************************)
TypeKinds == {"ElementaryTypeName", "UserDefinedTypeName", "Mapping", "ArrayTypeName"}

C17_RenderTypeIsTotal ==
    /\ tpc = "call" => extractTypeName(typeName) \in STRING
    /\ tpc = "done" =>
          /\ typeRendered \in STRING
          /\ typeName = Nil => typeRendered = ""
          /\ (typeName # Nil /\ Deref(typeName).NodeType \notin TypeKinds) =>
                typeRendered = ""
          /\ (IsType(typeName, "Mapping") /\ Deref(typeName).KeyType = Nil
                                         /\ Deref(typeName).ValueType = Nil) =>
                typeRendered = "mapping( => )"
          /\ (IsType(typeName, "ArrayTypeName") /\ Deref(typeName).BaseType = Nil
                                               /\ Deref(typeName).Length = JNil) =>
                typeRendered = "[]"

\* A mapping from a null key to a function type, which has a name: "mapping( => )".
C17_Witness ==
    /\ tpc = "done"
    /\ typeName = MappingType(Nil, FunctionType)
    /\ typeRendered = "mapping( => )"

(***************************************************************************)
(* The indexed flags of a parameter list: those its nodes carry, and those *)
(* of the Parameters extracted from it.                                    *)
(***************************************************************************)
ParamNodes(list) == IF list = Nil THEN <<>> ELSE Deref(list).Parameters

CarriesIndexed(list) ==
    [i \in 1..Len(ParamNodes(list)) |-> ParamNodes(list)[i].Indexed = Ref(TRUE)]

IndexedFlags(params) == [i \in 1..Len(params) |-> params[i].Indexed]

NoneIndexed(params) == \A i \in 1..Len(params) : params[i].Indexed = FALSE

(***************************************************************************)
(* C18 as stated: a Parameter's Indexed flag is true only when its node    *)
(* carries indexed = true, and only an event parameter can have it true:   *)
(* every Parameter of a function, of a return list, of the constructor and *)
(* of a modifier has Indexed = FALSE.                                      *)
(***************************************************************************)
C18_IndexedOnlyOnEvents ==
    contract # Nil =>
        LET c == Deref(contract)
            es == OfKind(ProcessedMembers, "EventDefinition")
        IN /\ \A i \in 1..Len(c.Events) :
                 IndexedFlags(c.Events[i].Parameters) = CarriesIndexed(es[i].Parameters)
           /\ \A i \in 1..Len(c.Functions) :
                 /\ NoneIndexed(c.Functions[i].Parameters)
                 /\ NoneIndexed(c.Functions[i].ReturnParameters)
           /\ c.Constructor # Nil =>
                 /\ NoneIndexed(Deref(c.Constructor).Parameters)
                 /\ NoneIndexed(Deref(c.Constructor).ReturnParameters)
           /\ \A i \in 1..Len(c.Modifiers) : NoneIndexed(c.Modifiers[i].Parameters)

(***************************************************************************)
(* C18 amended: a Parameter's Indexed flag is true exactly when its node   *)
(* carries indexed = true, and false when the node omits the flag or       *)
(* carries false. The rule is the same for the parameters of events,       *)
(* functions, return lists, constructors and modifiers: nothing restricts  *)
(* a true flag to events.                                                  *)
(***************************************************************************)
C18_IndexedCopiedFromNode ==
    contract # Nil =>
        LET c == Deref(contract)
            ms == ProcessedMembers
            es == OfKind(ms, "EventDefinition")
            fs == SelectSeq(ms, IsFunctionNode)
            mds == OfKind(ms, "ModifierDefinition")
            ctors == SelectSeq(ms, IsConstructorNode)
        IN /\ \A i \in 1..Len(c.Events) :
                 IndexedFlags(c.Events[i].Parameters) = CarriesIndexed(es[i].Parameters)
           /\ \A i \in 1..Len(c.Functions) :
                 /\ IndexedFlags(c.Functions[i].Parameters)
                       = CarriesIndexed(fs[i].Parameters)
                 /\ IndexedFlags(c.Functions[i].ReturnParameters)
                       = CarriesIndexed(fs[i].ReturnParameters)
           /\ c.Constructor # Nil =>
                 /\ IndexedFlags(Deref(c.Constructor).Parameters)
                       = CarriesIndexed(ctors[Len(ctors)].Parameters)
                 /\ IndexedFlags(Deref(c.Constructor).ReturnParameters)
                       = CarriesIndexed(ctors[Len(ctors)].ReturnParameters)
           /\ \A i \in 1..Len(c.Modifiers) :
                 IndexedFlags(c.Modifiers[i].Parameters) = CarriesIndexed(mds[i].Parameters)

\* An event with a set, a cleared and an omitted flag, and a function whose
\* parameter node carries indexed = true.
C18_Witness ==
    /\ ReturnedContract
    /\ ProcessedMembers = <<EventTransfer, FunctionFlagged>>
    /\ IndexedFlags(Deref(parsed.contract).Events[1].Parameters) = <<TRUE, FALSE, FALSE>>
    /\ IndexedFlags(Deref(parsed.contract).Functions[1].Parameters) = <<TRUE>>
    /\ IndexedFlags(Deref(parsed.contract).Functions[1].ReturnParameters) = <<FALSE>>

(***************************************************************************)
(* The files whose load fails on I/O or on decoding, and the walk that     *)
(* stops at one of them.                                                   *)
(***************************************************************************)
IoOrDecodeFailure(e) == IsJson(e) /\ (~e.readable \/ ~e.wellFormed)

StopsOnIoOrDecode ==
    wpc = "returned" /\ Stops # {} /\ IoOrDecodeFailure(walk[FirstStop])

(***************************************************************************)
(* C19 as stated: an I/O failure and a decode failure of a file are        *)
(* reported by the loader with the path of the file, and the error the     *)
(* loader produced is the error ParseAllContracts returns, unchanged.      *)
(***************************************************************************)
C19_LoaderErrorReturnedUnchanged ==
    StopsOnIoOrDecode =>
        LET e == walk[FirstStop]
            path == PathString(e.path)
        IN /\ ParseContractFile(e).err =
                 Ref(IF ~e.readable
                     THEN "open " \o path \o ": permission denied"
                     ELSE "failed to parse contract file " \o path
                             \o ": unexpected end of JSON input")
           /\ returned.err = ParseContractFile(e).err

(***************************************************************************)
(* C19 amended: the loader reports a decode failure as "failed to parse    *)
(* contract file <path>: <cause>" and returns an I/O failure as the        *)
(* operating system reports it, which names the path. ParseAllContracts    *)
(* does not return the loader's error as it is: it returns "error parsing  *)
(* file <path>: " followed by the loader's error, with a nil map, and      *)
(* stops at that file.                                                     *)
(***************************************************************************)
C19_LoaderErrorReturnedWrapped ==
    StopsOnIoOrDecode =>
        LET e == walk[FirstStop]
            path == PathString(e.path)
            loaderErr == IF ~e.readable
                         THEN "open " \o path \o ": permission denied"
                         ELSE "failed to parse contract file " \o path
                                 \o ": unexpected end of JSON input"
        IN /\ ParseContractFile(e).contract = Nil
           /\ ParseContractFile(e).err = Ref(loaderErr)
           /\ returned.err = Ref("error parsing file " \o path \o ": " \o loaderErr)
           /\ returned.err # ParseContractFile(e).err
           /\ returned.contracts = Nil
           /\ walkIdx = FirstStop

\* A document loaded, then a file of malformed JSON at data/e2.json.
C19_Witness ==
    /\ wpc = "returned"
    /\ Len(walk) >= 2
    /\ Named(1)
    /\ IsJson(walk[2]) /\ walk[2].readable /\ ~walk[2].wellFormed
    /\ returned.err =
          Ref("error parsing file data/e2.json: failed to parse contract file "
                 \o "data/e2.json: unexpected end of JSON input")

(***************************************************************************)
(* C20: Contract.Pragma is "pragma " followed by the literal tokens of a   *)
(* pragma directive, concatenated with no separator, and ";". At every     *)
(* point of the extraction it is that of the last pragma directive among   *)
(* the nodes handled so far, whether contract definitions stand before,    *)
(* between or after the directives, and it is empty while there is none.   *)
(***************************************************************************)
HandledNodes ==
    SubSeq(Nodes, 1, IF xpc = "returned" THEN Len(Nodes) ELSE nodeIdx - 1)

HandledPragmas == OfKind(HandledNodes, "PragmaDirective")

RECURSIVE Concat(_)
Concat(tokens) == IF tokens = <<>> THEN "" ELSE Head(tokens) \o Concat(Tail(tokens))

C20_LastPragmaWins ==
    contract # Nil =>
        LET ps == HandledPragmas
            pragma == Deref(contract).Pragma
        IN /\ ps = <<>> => pragma = ""
           /\ ps # <<>> =>
                 /\ pragma = "pragma " \o Concat(ps[Len(ps)].Literals) \o ";"
                 /\ ps[Len(ps)] = PragmaSolidity => pragma = "pragma solidity^0.8.0;"
                 /\ ps[Len(ps)] = PragmaAbicoder => pragma = "pragma abicoderv2;"

\* A pragma, a contract definition, another pragma: the second is kept.
C20_Witness ==
    /\ ReturnedContract
    /\ Len(Nodes) = 3
    /\ Nodes[1] = PragmaSolidity /\ IsDefinition(Nodes[2]) /\ Nodes[3] = PragmaAbicoder
    /\ Deref(parsed.contract).Pragma = "pragma abicoderv2;"

(***************************************************************************)
(* C21 as stated: after the extraction, Contract.Inherits equals the       *)
(* sequence of the names of the base names of the base-contract list of    *)
(* the contract definition processed: the same length, the same order,     *)
(* duplicates kept and nothing else added. It fails for a document with    *)
(* two contract definitions, each of which is processed.                   *)
(***************************************************************************)
C21_InheritsEqualsBaseList ==
    ReturnedContract =>
        \A k \in 1..Len(FinishedDefinitions) :
            Deref(parsed.contract).Inherits = BaseNames(FinishedDefinitions[k])

(***************************************************************************)
(* C21 amended: the base-contract list of each contract definition         *)
(* processed populates Inherits with the names of its base names, in       *)
(* declaration order, one entry per base contract, duplicates kept. The    *)
(* entries of the k-th definition entered stand after those of the         *)
(* definitions before it, and Inherits holds nothing else: it equals the   *)
(* base-name list of the definition only when the document has one.        *)
(***************************************************************************)
RECURSIVE BasesBefore(_)
BasesBefore(k) ==
    IF k <= 1 THEN 0
    ELSE BasesBefore(k - 1) + Len(EnteredDefinitions[k - 1].BaseContracts)

C21_InheritsListsBaseNames ==
    contract # Nil =>
        LET inherits == Deref(contract).Inherits
            n == Len(EnteredDefinitions)
        IN /\ Len(inherits) = BasesBefore(n + 1)
           /\ \A k \in 1..n :
                 \A i \in 1..Len(EnteredDefinitions[k].BaseContracts) :
                    inherits[BasesBefore(k) + i] =
                       EnteredDefinitions[k].BaseContracts[i].BaseName.Name
           /\ n = 1 => inherits = BaseNames(EnteredDefinitions[1])

\* Two contract definitions, the second naming the same base twice: Inherits
\* is the list of the first followed by the list of the second.
C21_Witness ==
    /\ ReturnedContract
    /\ Len(FinishedDefinitions) = 2
    /\ BaseNames(FinishedDefinitions[1]) = <<"Ownable">>
    /\ BaseNames(FinishedDefinitions[2]) = <<"Base", "Base">>
    /\ Deref(parsed.contract).Inherits = <<"Ownable", "Base", "Base">>

(***************************************************************************)
(* C22: the Parameters, ReturnParameters, Modifiers and Overrides of every *)
(* Function built (the constructor included) have the length and the order *)
(* of the parameter list, return-parameter list, modifier-invocation list  *)
(* and override list of its node: entry j is built from node j.            *)
(***************************************************************************)
OverrideNodes(node) == IF node.Overrides = Nil THEN <<>> ELSE Deref(node.Overrides).Overrides

SameOrder(function, node) ==
    /\ Len(function.Parameters) = Len(ParamNodes(node.Parameters))
    /\ \A j \in 1..Len(function.Parameters) :
          /\ function.Parameters[j].Name = ParamNodes(node.Parameters)[j].Name
          /\ function.Parameters[j].Type =
                extractTypeName(ParamNodes(node.Parameters)[j].TypeName)
    /\ Len(function.ReturnParameters) = Len(ParamNodes(node.ReturnParameters))
    /\ \A j \in 1..Len(function.ReturnParameters) :
          /\ function.ReturnParameters[j].Name = ParamNodes(node.ReturnParameters)[j].Name
          /\ function.ReturnParameters[j].Type =
                extractTypeName(ParamNodes(node.ReturnParameters)[j].TypeName)
    /\ Len(function.Modifiers) = Len(node.Modifiers)
    /\ \A j \in 1..Len(function.Modifiers) :
          function.Modifiers[j] = node.Modifiers[j].ModifierName.Name
    /\ Len(function.Overrides) = Len(OverrideNodes(node))
    /\ \A j \in 1..Len(function.Overrides) :
          function.Overrides[j] = OverrideNodes(node)[j].Name

C22_FunctionListsKeepOrder ==
    contract # Nil =>
        LET c == Deref(contract)
            fs == SelectSeq(ProcessedMembers, IsFunctionNode)
            ctors == SelectSeq(ProcessedMembers, IsConstructorNode)
        IN /\ Len(c.Functions) = Len(fs)
           /\ \A i \in 1..Len(c.Functions) : SameOrder(c.Functions[i], fs[i])
           /\ c.Constructor # Nil => SameOrder(Deref(c.Constructor), ctors[Len(ctors)])

\* transfer(to, amount) returns one value, with two modifiers and two overrides.
C22_Witness ==
    /\ ReturnedContract
    /\ Len(ProcessedMembers) = 1 /\ ProcessedMembers[1] = FunctionTransfer
    /\ Deref(parsed.contract).Functions[1].Parameters =
          <<[Name |-> "to", Type |-> "address", Indexed |-> FALSE],
            [Name |-> "amount", Type |-> "uint256", Indexed |-> FALSE]>>
    /\ Deref(parsed.contract).Functions[1].Modifiers = <<"whenOpen", "onlyOwner">>
    /\ Deref(parsed.contract).Functions[1].Overrides = <<"IERC20", "Base">>
    /\ Len(Deref(parsed.contract).Functions[1].ReturnParameters) = 1

(***************************************************************************)
(* C23: the step that handles a struct definition appends one Struct to    *)
(* Structs; its Members are the members of the node, all of them and in    *)
(* source order, a member whose type is a mapping included; Variables and  *)
(* Mappings of the Contract, and every other collection, stay as they      *)
(* were.                                                                   *)
(***************************************************************************)
HandlesStruct ==
    /\ xpc = "members" /\ memberIdx <= Len(CurNode.Nodes)
    /\ CurMember.NodeType = "StructDefinition"
    /\ memberIdx' = memberIdx + 1

C23_StructKeepsAllMembers ==
    [][HandlesStruct =>
         LET c == Deref(contract)
             d == Deref(contract')
             built == d.Structs[Len(d.Structs)]
         IN /\ Len(d.Structs) = Len(c.Structs) + 1
            /\ SubSeq(d.Structs, 1, Len(c.Structs)) = c.Structs
            /\ built.Name = CurMember.Name
            /\ Len(built.Members) = Len(CurMember.Members)
            /\ \A j \in 1..Len(built.Members) :
                  /\ built.Members[j].Name = CurMember.Members[j].Name
                  /\ built.Members[j].Type = extractTypeName(CurMember.Members[j].TypeName)
            /\ d.Variables = c.Variables /\ d.Mappings = c.Mappings
            /\ d = [c EXCEPT !.Structs = d.Structs]
      ]_vars

\* A variable, then a struct whose first member is a mapping.
C23_Witness ==
    /\ ReturnedContract
    /\ ProcessedMembers = <<VarElementary, StructAccount>>
    /\ Len(Deref(parsed.contract).Structs[1].Members) = 2
    /\ Deref(parsed.contract).Structs[1].Members[1].Type = "mapping(address => uint256)"
    /\ Len(Deref(parsed.contract).Variables) = 1
    /\ Deref(parsed.contract).Mappings = <<>>

(***************************************************************************)
(* C24: a top-level node that is not a pragma directive, an import         *)
(* directive or a contract definition, and a member that is not a          *)
(* variable, function, event, modifier, struct or enum, is skipped: the    *)
(* step leaves the Contract exactly as it was, returns nothing (no error), *)
(* and moves on to the next node of the same loop.                         *)
(***************************************************************************)
SkipsNode ==
    /\ xpc = "nodes" /\ nodeIdx <= Len(Nodes)
    /\ CurNode.NodeType \notin {"PragmaDirective", "ImportDirective", "ContractDefinition"}
    /\ nodeIdx' # nodeIdx

SkipsMember ==
    /\ xpc = "members" /\ memberIdx <= Len(CurNode.Nodes)
    /\ CurMember.NodeType \notin MemberKinds
    /\ memberIdx' # memberIdx

C24_OtherKindsAreSkipped ==
    [][/\ SkipsNode =>
            /\ contract' = contract /\ parsed' = NoResult
            /\ xpc' = "nodes" /\ nodeIdx' = nodeIdx + 1
       /\ SkipsMember =>
            /\ contract' = contract /\ parsed' = NoResult
            /\ xpc' = "members" /\ memberIdx' = memberIdx + 1 /\ nodeIdx' = nodeIdx
      ]_vars

\* A using-for directive, then a variable: the variable is still extracted.
C24_Witness ==
    /\ ReturnedContract
    /\ ProcessedMembers = <<UsingFor, VarElementary>>
    /\ Len(Deref(parsed.contract).Variables) = 1
    /\ Deref(parsed.contract) =
          [ZeroContract EXCEPT !.Name = "Vault",
                               !.Variables = <<ExtractVariable(VarElementary)>>]

(***************************************************************************)
(* C28: the Contract starts with the contract-name field of the document   *)
(* as its Name. A step changes the Name only when it enters a contract     *)
(* definition while the Name is empty, and then to the name of that        *)
(* definition; so when the field is non-empty the Name is the field at     *)
(* every point, whatever the contract definitions are called.              *)
(***************************************************************************)
EntersDefinition ==
    /\ xpc = "nodes" /\ nodeIdx <= Len(Nodes)
    /\ CurNode.NodeType = "ContractDefinition"
    /\ xpc' = "members"

C28_NameFieldTakesPrecedence ==
    [][/\ (contract = Nil /\ contract' # Nil) =>
            Deref(contract').Name = file.abiFile.ContractName
       /\ (contract # Nil /\ contract' # Nil) =>
            /\ Deref(contract').Name =
                  IF EntersDefinition /\ Deref(contract).Name = ""
                  THEN CurNode.Name
                  ELSE Deref(contract).Name
            /\ file.abiFile.ContractName # "" =>
                  Deref(contract').Name = file.abiFile.ContractName
      ]_vars

\* The field says Wallet, the contract definitions are Base and Token.
C28_Witness ==
    /\ ReturnedContract
    /\ file.abiFile.ContractName = "Wallet"
    /\ Len(FinishedDefinitions) = 2
    /\ FinishedDefinitions[1].Name = "Base" /\ FinishedDefinitions[2].Name = "Token"
    /\ Deref(parsed.contract).Name = "Wallet"

(***************************************************************************)
(* C25: the display layer only reads the registry. No step of the event    *)
(* loop (receiving an event, or handling Up, Down, Left, Right, Resize or  *)
(* any other key) adds, removes or replaces an entry of the contracts map  *)
(* or changes a field or a collection of a Contract held in it.            *)
(***************************************************************************)
C25_RegistryIsOnlyRead == [][registry' = registry]_vars

\* An item of a contract of the registry is on display: the registry has been read.
C25_Witness ==
    /\ upc = "polling" /\ event = "<Right>" /\ detailsListSelected
    /\ selectedContract # Nil
    /\ Deref(selectedContract).Name \in DOMAIN registry
    /\ registry[Deref(selectedContract).Name] = Deref(selectedContract)
    /\ HasPrefix(codeParagraph.Text, "Struct: Account")

(***************************************************************************)
(* C26: handling Left while the details list has the focus gives the focus *)
(* to the contracts list and clears the selection: no contract is          *)
(* selected, the details list has no rows and the title "Details", and the *)
(* text of the paragraph is empty. Handling Left while the contracts list  *)
(* has the focus changes neither the focus, nor the selection, nor what    *)
(* the widgets show (their rectangles follow the size of the terminal).    *)
(***************************************************************************)
Shown(widget) == [widget EXCEPT !.Rect = <<0, 0, 0, 0>>]

LeftReceived == upc = "handling" /\ event = "<Left>"

C26_LeftGoesBack ==
    [][LeftReceived =>
         IF detailsListSelected
         THEN /\ contractsListSelected' /\ ~detailsListSelected'
              /\ selectedContract' = Nil
              /\ detailsList'.Rows = <<>>
              /\ detailsList'.Title = "Details"
              /\ codeParagraph'.Text = ""
              /\ upc' = "polling"
         ELSE /\ UNCHANGED <<registry, selectedContract, contractsListSelected,
                             detailsListSelected>>
              /\ Shown(contractsList') = Shown(contractsList)
              /\ Shown(detailsList') = Shown(detailsList)
              /\ Shown(codeParagraph') = Shown(codeParagraph)
              /\ upc' = "polling"]_vars

\* Left has been received while the details list has the focus, lists the
\* items of a contract and an item is described in the paragraph.
C26_Witness ==
    /\ LeftReceived /\ detailsListSelected /\ selectedContract # Nil
    /\ Len(detailsList.Rows) > 0 /\ detailsList.Title = "Details of Token"
    /\ HasPrefix(codeParagraph.Text, "Event: Transfer")

(***************************************************************************)
(* C27: whichever panel has the focus, whatever is selected and whether    *)
(* the lists are empty or not, an event "q" or "<C-c>" that has been       *)
(* received ends the event loop.                                           *)
(***************************************************************************)
C27_QuitEndsTheLoop == (upc = "handling" /\ event \in QuitKeys) ~> (upc = "exited")

\* The loop has ended on Ctrl+C while the details list had the focus.
C27_Witness ==
    /\ upc = "exited" /\ event = "<C-c>" /\ detailsListSelected
    /\ Len(detailsList.Rows) > 0

(***************************************************************************)
(* C29: in every state of the event loop exactly one of the two lists has  *)
(* the focus, and a contract is selected (selectedContract is not nil)     *)
(* exactly when the details list has the focus.                            *)
(***************************************************************************)
C29_OneFocusAndSelection ==
    /\ contractsListSelected # detailsListSelected
    /\ (selectedContract # Nil) <=> detailsListSelected

\* Right has moved the focus to the details list and selected a contract.
C29_Witness ==
    /\ upc = "polling" /\ event = "<Right>"
    /\ detailsListSelected /\ ~contractsListSelected /\ selectedContract # Nil
    /\ detailsList.BorderStyle = "green" /\ contractsList.BorderStyle = "white"

(***************************************************************************)
(* C30: the Right handler never panics. When it is about to index          *)
(* contractsList.Rows or detailsList.Rows by SelectedRow (its empty-list   *)
(* and nil-selection guards passed) the index is within 0..len(Rows)-1,    *)
(* the contract it fetches by the selected name is in the registry, and    *)
(* the Constructor it dereferences for the row below the Constructor       *)
(* header is not nil.                                                      *)
(***************************************************************************)
RightReceived == upc = "handling" /\ event = "<Right>"

C30_RightAccessesAreSafe ==
    /\ upc # "panic"
    /\ (RightReceived /\ contractsListSelected /\ Len(contractsList.Rows) > 0)
          => /\ InRange(contractsList, contractsList.SelectedRow)
             /\ Row(contractsList, contractsList.SelectedRow) \in DOMAIN registry
    /\ (RightReceived /\ ~contractsListSelected /\ detailsListSelected
           /\ selectedContract # Nil /\ Len(detailsList.Rows) > 0)
          => /\ InRange(detailsList, detailsList.SelectedRow)
             /\ (~HasPrefix(Row(detailsList, detailsList.SelectedRow), "[")
                   /\ ItemTypeAt(detailsList, detailsList.SelectedRow) = "Constructor")
                  => Deref(selectedContract).Constructor # Nil

\* Right on the Constructor row of the details list has been handled: the
\* row was read by its index and the Constructor dereferenced.
C30_Witness ==
    /\ upc = "polling" /\ event = "<Right>"
    /\ detailsListSelected /\ selectedContract # Nil
    /\ Row(detailsList, detailsList.SelectedRow) = "  - Constructor"
    /\ HasPrefix(codeParagraph.Text, "Constructor\nParameters:")

====
